---- MODULE Spec2Model ----
(***************************************************************************)
(* Change-detection and polling pipeline of the Excel watcher:             *)
(*   core/watcher.py     ActivePollingHandler, ExcelFileEventHandler       *)
(*   core/comparison.py  compare_excel_changes, the change classifier and  *)
(*                       the change log                                    *)
(*   main.py             the shutdown sequence                             *)
(* Threads: the notification thread (on_modified), one thread per          *)
(* threading.Timer (the polling callbacks), the main thread (shutdown) and *)
(* the external writer that saves the watched file.                        *)
(***************************************************************************)
EXTENDS Integers, Sequences, FiniteSets, TLC

(***************************************************************************)
(* Bounds of the model.                                                    *)
(***************************************************************************)
\* the external writer is active during the first MaxTime seconds
MaxTime == 2
\* number of saves the external writer performs
MaxWrites == 2
\* number of threading.Timer objects alive at the same time
MaxTimers == 2
\* number of different file contents the writer chooses from
NumContents == 2

(***************************************************************************)
(* Settings (config/settings.py and the getattr defaults).                 *)
(***************************************************************************)
DEBOUNCE_INTERVAL_SEC == 2
POLLING_SIZE_THRESHOLD_MB == 10
DENSE_POLLING_INTERVAL_SEC == 10
SPARSE_POLLING_INTERVAL_SEC == 15
MTIME_TOLERANCE_SEC == 2
LOG_DEDUP_WINDOW_SEC == 300
MAX_CHANGES_TO_DISPLAY == 20

Files == {"book.xlsx"}

ROUTER == 0
TimerIds == 1..MaxTimers
Comparers == {ROUTER} \cup TimerIds

\* polling_tasks[f]: no entry / an entry whose timer object has already run
NoTask == 0
FinishedTimer == -1
\* last_event_times[f]: the file has no entry
NoEvent == -1

(***************************************************************************)
(* Cells, sheets and snapshots.  A formula is a sequence of characters;    *)
(* Python's None is NULL for a value and NoFormula for a formula.          *)
(***************************************************************************)
NULL == "None"
NoFormula == <<"None">>
NoAuthor == "None"
EmptyCell == [empty |-> TRUE]
EmptySheet == [a \in {} |-> EmptyCell]
EmptySnapshot == [s \in {} |-> EmptySheet]

Cell(f, v) == [formula |-> f, value |-> v]

FormulaSum == <<"=", "B", "1", "+", "B", "2">>

\* the contents the external writer can save, with the size of the file in bytes
ContentTable ==
  [c \in 1..5 |->
     CASE c = 1 -> [cells |-> [Sheet1 |-> [A1 |-> Cell(NoFormula, "1")]], size |-> 9000]
       [] c = 2 -> [cells |-> [Sheet1 |-> [A1 |-> Cell(NoFormula, "2")]], size |-> 9000]
       [] c = 3 -> [cells |-> [Sheet1 |-> [A1 |-> Cell(FormulaSum, "10")]], size |-> 11534336]
       [] c = 4 -> [cells |-> [Sheet1 |-> [A1 |-> Cell(FormulaSum, "11")]], size |-> 11534336]
       [] c = 5 -> [cells |-> [Sheet1 |-> [A1 |-> Cell(NoFormula, "1")],
                               Sheet2 |-> [A1 |-> Cell(NoFormula, "x")]], size |-> 9100]]

Contents == 1..NumContents

\* the contents a file or a baseline can hold when the engine is called on its own
AllContents == DOMAIN ContentTable

Abs(x) == IF x < 0 THEN -x ELSE x
Min(a, b) == IF a < b THEN a ELSE b
Max(a, b) == IF a > b THEN a ELSE b


(***************************************************************************)
(* Spreadsheet Reader: the formula text it stores (core/excel_parser.py).  *)
(* pretty_formula rewrites the external references of a formula with the   *)
(* workbook's table of external links, ref_map (link number -> path).      *)
(* Paths are those on which _normalize_path only turns "/" into "\\": no    *)
(* percent escapes, no file: scheme, no doubled separators.                *)
(***************************************************************************)
Digits == {"0", "1", "2", "3", "4", "5", "6", "7", "8", "9"}

\* str.replace(ch, by) for a single character ch
RECURSIVE Replace(_, _, _)
Replace(s, ch, by) ==
  IF s = << >> THEN << >>
  ELSE (IF Head(s) = ch THEN by ELSE <<Head(s)>>) \o Replace(Tail(s), ch, by)

\* ref_map.get(n, '')
RefGet(ref_map, n) == IF n \in DOMAIN ref_map THEN ref_map[n] ELSE << >>

normalize_path(p) == Replace(p, "/", <<"\\">>)

\* position of the last separator of a normalized path, 0 if it has none
LastSep(p) ==
  LET seps == { k \in 1..Len(p) : p[k] = "\\" }
  IN  IF seps = {} THEN 0 ELSE CHOOSE k \in seps : \A j \in seps : j <= k

\* 'dir\[fname]sheet', the sheet's quotes doubled
excel_external_prefix(norm_path, sheet) ==
  LET k == LastSep(norm_path)
      fname == SubSeq(norm_path, k + 1, Len(norm_path))
      dir_ == SubSeq(norm_path, 1, k - 1)
      sheet_escaped == Replace(sheet, "'", <<"'", "'">>)
      inside == (IF dir_ # << >> THEN dir_ \o <<"\\">> ELSE << >>)
                \o <<"[">> \o fname \o <<"]">> \o sheet_escaped
  IN  <<"'">> \o inside \o <<"'">>

\* end of the run of digits / of characters other than ! and ] that starts at i
RECURSIVE DigitsEnd(_, _)
DigitsEnd(s, i) == IF i <= Len(s) /\ s[i] \in Digits THEN DigitsEnd(s, i + 1) ELSE i

RECURSIVE SheetEnd(_, _)
SheetEnd(s, i) == IF i <= Len(s) /\ s[i] \notin {"!", "]"} THEN SheetEnd(s, i + 1) ELSE i

\* re.match of \[(\d+)\] at i: the position of the closing bracket, 0 if no match
RefEnd(s, i) ==
  LET d == DigitsEnd(s, i + 1)
  IN  IF i <= Len(s) /\ s[i] = "[" /\ d > i + 1 /\ d <= Len(s) /\ s[d] = "]" THEN d ELSE 0

\* re.match of \[(\d+)\]([^!\]]+)! at i: the position of the "!", 0 if no match
RefWithSheetEnd(s, i) ==
  LET d == RefEnd(s, i)
      e == SheetEnd(s, d + 1)
  IN  IF d # 0 /\ e > d + 1 /\ e <= Len(s) /\ s[e] = "!" THEN e ELSE 0

\* re.sub(r"\[(\d+)\]([^!\]]+)!", repl_path_with_sheet, formula_str), from i on
RECURSIVE repl_path_with_sheet(_, _, _)
repl_path_with_sheet(s, i, ref_map) ==
  IF i > Len(s) THEN << >>
  ELSE LET e == RefWithSheetEnd(s, i)
       IN  IF e = 0 THEN <<s[i]>> \o repl_path_with_sheet(s, i + 1, ref_map)
           ELSE LET d == RefEnd(s, i)
                    n == SubSeq(s, i + 1, d - 1)
                    sheet == SubSeq(s, d + 1, e - 1)
                    norm_path == normalize_path(RefGet(ref_map, n))
                IN  (IF norm_path # << >>
                     THEN excel_external_prefix(norm_path, sheet) \o <<"!">>
                     ELSE SubSeq(s, i, e))
                    \o repl_path_with_sheet(s, e + 1, ref_map)

\* re.sub(r"\[(\d+)\]", repl_annotate, s), from i on; "ExternalFile" stands
\* for the label the code writes in front of the link number
RECURSIVE repl_annotate(_, _, _)
repl_annotate(s, i, ref_map) ==
  IF i > Len(s) THEN << >>
  ELSE LET d == RefEnd(s, i)
       IN  IF d = 0 THEN <<s[i]>> \o repl_annotate(s, i + 1, ref_map)
           ELSE LET n == SubSeq(s, i + 1, d - 1)
                    norm_path == normalize_path(RefGet(ref_map, n))
                IN  (IF norm_path # << >>
                     THEN <<"[", "ExternalFile">> \o n \o <<":", " ">> \o norm_path \o <<"]">>
                     ELSE SubSeq(s, i, d))
                    \o repl_annotate(s, d + 1, ref_map)

\* pretty_formula(formula, ref_map); formula is None or a string
pretty_formula(formula, ref_map) ==
  IF formula = NoFormula THEN formula
  ELSE IF DOMAIN ref_map # {}
       THEN repl_annotate(repl_path_with_sheet(formula, 1, ref_map), 1, ref_map)
       ELSE formula

(***************************************************************************)
(* Change Classifier (core/comparison.py).                                 *)
(***************************************************************************)
\* cell.get(k): None for the empty dict
CellGet(cell, k) == IF cell = EmptyCell THEN (IF k = "formula" THEN NoFormula ELSE NULL)
                    ELSE cell[k]

\* ws.get(addr, {})
SheetGet(ws, addr) == IF addr \in DOMAIN ws THEN ws[addr] ELSE EmptyCell

\* snapshot.get(sheet, {})
SnapGet(snap, sheet) == IF sheet \in DOMAIN snap THEN snap[sheet] ELSE EmptySheet

\* truth value of a formula: None and the empty string are false
FormulaTruthy(f) == f # NoFormula /\ f # << >>

\* pat in s, for sequences of characters
Contains(s, pat) ==
  \E i \in 1..(Len(s) - Len(pat) + 1) : \A j \in 1..Len(pat) : s[i + j - 1] = pat[j]

has_external_reference(formula) ==
  IF ~FormulaTruthy(formula) THEN FALSE
  ELSE Contains(formula, <<"[", "'">>) \/ Contains(formula, <<"!", "'">>)

\* faulty variant: a value difference is looked at before a formula difference
classify_value_before_formula(old_cell, new_cell) ==
  LET old_val == CellGet(old_cell, "value")
      new_val == CellGet(new_cell, "value")
      old_formula == CellGet(old_cell, "formula")
      new_formula == CellGet(new_cell, "formula")
  IN  IF old_cell = EmptyCell /\ new_cell # EmptyCell THEN "CELL_ADDED"
      ELSE IF old_cell # EmptyCell /\ new_cell = EmptyCell THEN "CELL_DELETED"
      ELSE IF old_val # new_val
           THEN (IF FormulaTruthy(old_formula) THEN "INDIRECT_CHANGE" ELSE "DIRECT_VALUE_CHANGE")
      ELSE IF old_formula # new_formula THEN "FORMULA_CHANGE"
      ELSE "NO_CHANGE"

classify_change_type(old_cell, new_cell) ==
  LET old_val == CellGet(old_cell, "value")
      new_val == CellGet(new_cell, "value")
      old_formula == CellGet(old_cell, "formula")
      new_formula == CellGet(new_cell, "formula")
  IN  IF old_cell = EmptyCell /\ new_cell # EmptyCell THEN "CELL_ADDED"
      ELSE IF old_cell # EmptyCell /\ new_cell = EmptyCell THEN "CELL_DELETED"
      ELSE IF old_formula # new_formula THEN "FORMULA_CHANGE"
      ELSE IF ~FormulaTruthy(old_formula) /\ ~FormulaTruthy(new_formula) /\ old_val # new_val
           THEN "DIRECT_VALUE_CHANGE"
      ELSE IF FormulaTruthy(old_formula) /\ FormulaTruthy(new_formula)
              /\ old_formula = new_formula /\ old_val # new_val
           THEN (IF has_external_reference(old_formula) THEN "EXTERNAL_REF_UPDATE"
                 ELSE "INDIRECT_CHANGE")
      ELSE "NO_CHANGE"

\* faulty variant: a filter that also drops the added cells
FilteredOutAdded(change_type, cfg) == change_type = "CELL_ADDED"

\* the category filter of analyze_meaningful_changes; cfg is the settings record
FilteredOut(change_type, cfg) ==
  \/ change_type = "FORMULA_CHANGE" /\ ~cfg.TRACK_FORMULA_CHANGES
  \/ change_type = "DIRECT_VALUE_CHANGE" /\ ~cfg.TRACK_DIRECT_VALUE_CHANGES
  \/ change_type = "EXTERNAL_REF_UPDATE" /\ ~cfg.TRACK_EXTERNAL_REFERENCES
  \/ change_type = "INDIRECT_CHANGE" /\ cfg.IGNORE_INDIRECT_CHANGES

ChangeRecord(addr, old_cell, new_cell) ==
  [address |-> addr,
   old_value |-> CellGet(old_cell, "value"), new_value |-> CellGet(new_cell, "value"),
   old_formula |-> CellGet(old_cell, "formula"), new_formula |-> CellGet(new_cell, "formula"),
   change_type |-> classify_change_type(old_cell, new_cell)]

\* the list of change records, as a set (the list order is the iteration order of a set)
analyze_meaningful_changes(old_ws, new_ws, cfg) ==
  LET all_addresses == DOMAIN old_ws \cup DOMAIN new_ws
  IN  { ChangeRecord(addr, SheetGet(old_ws, addr), SheetGet(new_ws, addr)) :
          addr \in { a \in all_addresses :
                       /\ SheetGet(old_ws, a) # SheetGet(new_ws, a)
                       /\ ~FilteredOut(classify_change_type(SheetGet(old_ws, a), SheetGet(new_ws, a)), cfg) } }

\* addresses of the on-screen table of one sheet: display_old / display_new
DisplayAddresses(old_ws, new_ws) ==
  { a \in DOMAIN old_ws \cup DOMAIN new_ws : SheetGet(old_ws, a) # SheetGet(new_ws, a) }

\* the cell addresses of the model in the order sorted() gives them
AddressOrder == <<"A1", "B2">>

\* rows printed before the row of address a
RowsBefore(a, all_keys) ==
  LET pos(x) == CHOOSE i \in 1..Len(AddressOrder) : AddressOrder[i] = x
  IN  Cardinality({ b \in all_keys : pos(b) < pos(a) })

\* print_aligned_console_diff: the addresses of the rows it prints, all_keys
\* being the keys of display_old / display_new
print_aligned_console_diff(all_keys, max_display_changes) ==
  { a \in all_keys : ~(max_display_changes > 0 /\ RowsBefore(a, all_keys) >= max_display_changes) }

\* faulty variant: a log without the recent-duplicate memory
log_without_dedup(st, file_path, worksheet_name, changes, current_author, t) ==
  IF current_author = NoAuthor \/ current_author = "N/A" \/ changes = {} THEN st
  ELSE [log |-> Append(st.log, [timestamp |-> t, file |-> file_path,
                                sheet |-> worksheet_name, changes |-> changes,
                                author |-> current_author]),
        recent |-> st.recent]

\* normalized_changes: the sorted list of the records' fields stands for the
\* records whatever their order in the list
normalized_changes(changes) == { changes[i] : i \in DOMAIN changes }

(***************************************************************************)
(* Change log with the recent-duplicate memory.  st is the pair            *)
(* [log, recent]; t is time.time().  One log entry stands for the rows     *)
(* written by one call, one row per change record.                         *)
(***************************************************************************)
log_meaningful_changes_to_csv(st, file_path, worksheet_name, changes, current_author, t) ==
  IF current_author = NoAuthor \/ current_author = "N/A" \/ changes = {} THEN st
  ELSE LET sig == [file |-> file_path, sheet |-> worksheet_name, changes |-> changes]
           live == { e \in st.recent : ~(t - e.stamp > LOG_DEDUP_WINDOW_SEC) }
       IN  IF \E e \in live : e.sig = sig
           THEN [log |-> st.log, recent |-> live]
           ELSE [log |-> Append(st.log, [timestamp |-> t, file |-> file_path,
                                         sheet |-> worksheet_name, changes |-> changes,
                                         author |-> current_author]),
                 recent |-> live \cup {[sig |-> sig, stamp |-> t]}]


(***************************************************************************)
(* State.                                                                  *)
(***************************************************************************)
VARIABLES
  now,               \* wall clock in seconds; stops counting at MaxTime
  files,             \* the watched files on disk: content and modification time
  writesLeft,        \* saves the external writer still performs
  pending,           \* modified notifications queued for the notification thread
  settings,          \* config.settings
  faults,            \* whether reads, saves and the comparison may fail
  monitor_only,      \* files under MONITOR_ONLY_FOLDERS and not under WATCH_FOLDERS
  excluded,          \* files under a folder of WATCH_EXCLUDE_FOLDERS
  copy,              \* a call of copy_to_cache on its own: settings, locals, what it did
  processing,        \* settings.current_processing_file / processing_start_time, watched by timeout_handler
  locking,           \* ActivePollingHandler.lock and the threads that take it, two files
  baseline,          \* Baseline Store
  log,               \* change log (CSV)
  recent,            \* _recent_log_signatures
  console,           \* what the last step printed
  last_event_times,  \* ExcelFileEventHandler.last_event_times, as seconds elapsed since
  event_counter,     \* ExcelFileEventHandler.event_counter
  router,            \* position of the notification thread inside on_modified
  polling_tasks,     \* ActivePollingHandler.polling_tasks
  timers,            \* the threading.Timer objects and their callbacks
  stop_event,        \* ActivePollingHandler.stop_event
  mainpc,            \* position of the main thread in the shutdown sequence
  cmp,               \* locals of the compare_excel_changes pass each thread is running
  call               \* a call of the Change Classifier on its own: arguments and result

vars == <<now, files, writesLeft, pending, settings, faults, monitor_only, excluded, copy,
          processing, locking, call, baseline, log,
          recent, console, last_event_times, event_counter, router, polling_tasks, timers,
          stop_event, mainpc, cmp>>

\* the variables of the watcher, its comparisons and its environment
handlerVars == <<now, files, writesLeft, pending, settings, faults, monitor_only, excluded, call,
                 baseline, log, recent, console, last_event_times, event_counter, router,
                 polling_tasks, timers, stop_event, mainpc, cmp>>

envVars == <<now, files, writesLeft, settings, faults, monitor_only, excluded, copy, processing,
             locking>>

NoBaseline == [exists |-> FALSE, cells |-> EmptySnapshot, has_stat |-> FALSE,
               source_mtime |-> 0, source_size |-> 0, last_author |-> "N/A"]

\* stat of the file version a pass has read (kept to state properties)
NoStat == [mtime |-> 0, size |-> 0]

\* cause: why the pass returned ("" while it has not)
IdleCmp == [phase |-> "idle", file |-> "", silent |-> FALSE, is_polling |-> FALSE,
            old_baseline |-> NoBaseline, current_data |-> EmptySnapshot,
            new_author |-> NoAuthor, result |-> FALSE, cause |-> "", read_stat |-> NoStat]

\* no classifier call is being evaluated
NoCall == [fn |-> ""]

FreeTimer == [state |-> "free", file |-> "", interval |-> 0, remaining |-> 0,
              last_mtime |-> 0, has_changes |-> FALSE]

RouterIdle == [pc |-> "idle", file |-> ""]

\* no call of copy_to_cache is in progress
NoCopy ==
  [pc |-> "idle", fn |-> "", src |-> "", cfg |-> [USE_LOCAL_CACHE |-> FALSE], attempt |-> 0,
   checks |-> 0, last |-> 0, same |-> 0, elapsed |-> 0, readings |-> << >>,
   result |-> "", rows |-> << >>, waits |-> << >>, copies |-> << >>, unstable |-> {},
   timed_out |-> {}]

\* the lock is looked at in a specification of its own
NoLocking == [lock |-> ""]

\* settings.current_processing_file = None, settings.processing_start_time = None
IdleProcessing ==
  [current_processing_file |-> "", processing_start_time |-> -1, clock |-> 0,
   steps |-> << >>, warned |-> {}]

DefaultSettings ==
  [TRACK_EXTERNAL_REFERENCES |-> TRUE, TRACK_DIRECT_VALUE_CHANGES |-> TRUE,
   TRACK_FORMULA_CHANGES |-> TRUE, IGNORE_INDIRECT_CHANGES |-> TRUE,
   AUTO_UPDATE_BASELINE_AFTER_COMPARE |-> TRUE, QUICK_SKIP_BY_STAT |-> TRUE]

\* os.path.getmtime / os.path.getsize / the Spreadsheet Reader on the live file
getmtime(f) == files[f].mtime
getsize(f) == ContentTable[files[f].content].size
CurrentCells(f) == ContentTable[files[f].content].cells

\* modification time and size of the version of f now on disk
StatOf(f) == [mtime |-> getmtime(f), size |-> getsize(f)]

Out(kind, f) == [kind |-> kind, file |-> f, sheet |-> "", addrs |-> {}]

InitialMtime == 0 - (MTIME_TOLERANCE_SEC + 1)

\* a baseline taken from the file as it is on disk
BaselineOf(f, author) ==
  [exists |-> TRUE, cells |-> CurrentCells(f), has_stat |-> TRUE,
   source_mtime |-> getmtime(f), source_size |-> getsize(f), last_author |-> author]

\* a baseline taken from content c at the initial modification time
BaselineFrom(c, author) ==
  [exists |-> TRUE, cells |-> ContentTable[c].cells, has_stat |-> TRUE,
   source_mtime |-> InitialMtime, source_size |-> ContentTable[c].size, last_author |-> author]

\* the watcher after construction, nothing in progress
InitWatcher ==
  /\ now = 0
  /\ pending = [f \in Files |-> 0]
  /\ writesLeft = MaxWrites
  /\ log = << >>
  /\ recent = {}
  /\ console = {}
  /\ last_event_times = [f \in Files |-> NoEvent]
  /\ event_counter = 0
  /\ router = RouterIdle
  /\ polling_tasks = [f \in Files |-> NoTask]
  /\ timers = [t \in TimerIds |-> FreeTimer]
  /\ stop_event = FALSE
  /\ mainpc = "watching"
  /\ cmp = [p \in Comparers |-> IdleCmp]
  /\ call = NoCall

\* the state after construction, nothing in progress
InitHandlers ==
  /\ InitWatcher
  /\ copy = NoCopy
  /\ processing = IdleProcessing
  /\ locking = NoLocking

\* the default folders: no monitor-only folder, no excluded folder
InitIdle ==
  /\ InitHandlers
  /\ monitor_only = {}
  /\ excluded = {}

\* the start-up scan has taken the baseline of every watched file
InitWatching ==
  /\ InitIdle
  /\ files = [f \in Files |-> [content |-> 1, mtime |-> InitialMtime]]
  /\ baseline = [f \in Files |-> BaselineOf(f, "user")]
  /\ settings \in { [DefaultSettings EXCEPT !.QUICK_SKIP_BY_STAT = q] : q \in BOOLEAN }

\* reads and saves succeed
Init ==
  /\ InitWatching
  /\ faults = FALSE

\* reads, saves and the comparison may fail at any time
InitFaults ==
  /\ InitWatching
  /\ faults = TRUE

\* all settings the Comparison Engine reads
SettingsSpace ==
  { [TRACK_EXTERNAL_REFERENCES |-> e, TRACK_DIRECT_VALUE_CHANGES |-> d,
     TRACK_FORMULA_CHANGES |-> fc, IGNORE_INDIRECT_CHANGES |-> i,
     AUTO_UPDATE_BASELINE_AFTER_COMPARE |-> a, QUICK_SKIP_BY_STAT |-> q] :
      e \in BOOLEAN, d \in BOOLEAN, fc \in BOOLEAN, i \in BOOLEAN, a \in BOOLEAN, q \in BOOLEAN }

\* modification times of the file under comparison: that of the baseline, the
\* farthest one within the tolerance, the nearest one beyond it
CompareMtimes ==
  { InitialMtime, InitialMtime + MTIME_TOLERANCE_SEC, InitialMtime + MTIME_TOLERANCE_SEC + 1 }

\* the baselines a comparison may find: none, one taken of any content at
\* InitialMtime, one stored without source_mtime / source_size
CompareBaselines ==
  {NoBaseline} \cup { BaselineFrom(c, "user") : c \in AllContents }
               \cup { [BaselineFrom(1, "user") EXCEPT !.has_stat = FALSE] }

\* the inputs of compare_excel_changes: any file content, baseline and settings
InitCompare ==
  /\ InitIdle
  /\ files \in [Files -> { [content |-> c, mtime |-> m] : c \in AllContents, m \in CompareMtimes }]
  /\ baseline \in [Files -> CompareBaselines]
  /\ settings \in SettingsSpace
  /\ faults = TRUE

\* folders, with reads and saves that succeed or may fail: a file of a watch
\* folder may lie under a folder of
\* WATCH_EXCLUDE_FOLDERS, and then also under one of MONITOR_ONLY_FOLDERS (the
\* observer is scheduled on the watch folders, recursively); a file under an
\* excluded folder may have no baseline yet
InitFolders ==
  /\ InitHandlers
  /\ excluded \in SUBSET Files
  /\ monitor_only \in SUBSET excluded
  /\ files = [f \in Files |-> [content |-> 1, mtime |-> InitialMtime]]
  /\ baseline \in { b \in [Files -> {NoBaseline} \cup { BaselineOf(f, "user") : f \in Files }] :
                      \A f \in Files : IF b[f] = NoBaseline THEN f \in excluded
                                        ELSE b[f] = BaselineOf(f, "user") }
  /\ settings = DefaultSettings
  /\ faults \in BOOLEAN

(***************************************************************************)
(* Environment: the clock and the external writer.                         *)
(***************************************************************************)
\* the clock and the debounce ages no longer change with time
Saturated ==
  /\ now = MaxTime
  /\ \A f \in Files : last_event_times[f] \in {NoEvent, DEBOUNCE_INTERVAL_SEC}

Running == { t \in TimerIds : timers[t].state = "pending" /\ timers[t].remaining > 0 }

\* time passes: one second, or, when only the timers still count, the time to
\* the next expiry (no step of any thread reads a timer's remaining time)
Elapse ==
  IF Saturated /\ Running # {}
  THEN CHOOSE d \in { timers[t].remaining : t \in Running } :
         \A t \in Running : d <= timers[t].remaining
  ELSE 1

Tick ==
  /\ now' = Min(now + Elapse, MaxTime)
  /\ last_event_times' = [f \in Files |->
        IF last_event_times[f] = NoEvent THEN NoEvent
        ELSE Min(last_event_times[f] + Elapse, DEBOUNCE_INTERVAL_SEC)]
  /\ timers' = [t \in TimerIds |->
        IF t \in Running
        THEN [timers[t] EXCEPT !.remaining = @ - Min(@, Elapse)] ELSE timers[t]]
  /\ console' = {}
  /\ UNCHANGED <<files, writesLeft, pending, settings, faults, monitor_only, excluded, copy, processing,
                 locking,
                 call, baseline, log,
                 recent, event_counter, router, polling_tasks, stop_event, mainpc, cmp>>

\* the external program saves the file; the file system raises one modified event
Write(f, c) ==
  /\ writesLeft > 0
  /\ now < MaxTime
  /\ files' = [files EXCEPT ![f] = [content |-> c, mtime |-> now]]
  /\ writesLeft' = writesLeft - 1
  /\ pending' = [pending EXCEPT ![f] = @ + 1]
  /\ console' = {}
  /\ UNCHANGED <<now, settings, faults, monitor_only, excluded, copy, processing,
                 locking,
                 call, baseline, log, recent, last_event_times,
                 event_counter, router, polling_tasks, timers, stop_event, mainpc, cmp>>


(***************************************************************************)
(* Comparison Engine: compare_excel_changes(file_path, silent,             *)
(* event_number, is_polling), run by comparer p in the steps at which it   *)
(* reads or writes shared state: (1) load the baseline and stat the file   *)
(* for the quick skip, done in the step of the caller that makes the call, *)
(* (2) read the snapshot (once more after a failure), compare, display and *)
(* log, (3) stat the file again and save the baseline.                     *)
(***************************************************************************)
CmpReturn(c, result, cause) ==
  [IdleCmp EXCEPT !.phase = "done", !.file = c.file, !.silent = c.silent,
                  !.is_polling = c.is_polling, !.result = result, !.cause = cause]

\* faulty variant: the exception leaves compare_excel_changes, the pass never returns
OnExceptionEscapes(c) == [c EXCEPT !.phase = "raised"]

\* `except Exception as e: ... return False`
OnException(c) == CmpReturn(c, FALSE, "error")

\* `return False` after the second failed read
ReturnReadFailed(c) == CmpReturn(c, FALSE, "unreadable")

\* faulty variant: an unchanged snapshot reported as a change
ReturnNoChangeAsChanged(c) == CmpReturn(c, TRUE, "no_change")

\* `return False` when the snapshot equals the baseline's cells
ReturnNoChange(c) == CmpReturn(c, FALSE, "no_change")

\* what the except clause prints: `if not silent: logging.error(...)`
ErrorOutput(f, silent) == IF ~silent THEN {Out("error_logged", f)} ELSE {}

InProgress(p) == cmp[p].phase \in {"read", "retry", "save"}

\* load_baseline(base_key)
load_baseline(f) == baseline[f]

\* faulty variant: the quick skip with no tolerance on the modification time
QuickSkipExactMtime(f, old_baseline) ==
  /\ settings.QUICK_SKIP_BY_STAT
  /\ old_baseline.exists
  /\ old_baseline.has_stat
  /\ getsize(f) = old_baseline.source_size
  /\ getmtime(f) = old_baseline.source_mtime

\* the quick-skip condition of compare_excel_changes
QuickSkip(f, old_baseline) ==
  /\ settings.QUICK_SKIP_BY_STAT
  /\ old_baseline.exists
  /\ old_baseline.has_stat
  /\ getsize(f) = old_baseline.source_size
  /\ Abs(getmtime(f) - old_baseline.source_mtime) <= MTIME_TOLERANCE_SEC

\* the call, up to the first read of the snapshot: the pass has returned false
\* after the quick skip, or goes on to read the file
\* (raised: loading the baseline raises an exception)
CmpBegin(f, silent, is_polling, raised) ==
  LET c == [IdleCmp EXCEPT !.file = f, !.silent = silent, !.is_polling = is_polling]
      old_baseline == load_baseline(f)
  IN  IF raised THEN OnException(c)
      ELSE IF QuickSkip(f, old_baseline) THEN CmpReturn(c, FALSE, "quick_skip")
      ELSE [c EXCEPT !.phase = "read", !.old_baseline = old_baseline]

\* what the call prints up to there
BeginOutput(f, silent, raised) ==
  IF raised THEN ErrorOutput(f, silent)
  ELSE IF QuickSkip(f, load_baseline(f)) /\ ~silent THEN {Out("quick_pass", f)} ELSE {}

ChangedSheets(baseline_cells, current_data) ==
  { s \in DOMAIN baseline_cells \cup DOMAIN current_data :
      SnapGet(baseline_cells, s) # SnapGet(current_data, s) }

\* the flag the sheet loop sets: some sheet differs from the baseline's
any_sheet_has_changes(baseline_cells, current_data) ==
  ChangedSheets(baseline_cells, current_data) # {}

\* the log calls of the sheet loop, one per changed sheet
RECURSIVE LogSheets(_, _, _, _, _, _, _)
LogSheets(st, sheets, f, baseline_cells, current_data, author, t) ==
  IF sheets = {} THEN st
  ELSE LET s == CHOOSE x \in sheets : TRUE
           meaningful_changes == analyze_meaningful_changes(SnapGet(baseline_cells, s),
                                                            SnapGet(current_data, s), settings)
       IN  LogSheets(log_meaningful_changes_to_csv(st, f, s, meaningful_changes, author, t),
                     sheets \ {s}, f, baseline_cells, current_data, author, t)

\* the on-screen tables of the sheet loop
DiffTables(f, baseline_cells, current_data) ==
  { [kind |-> "diff_table", file |-> f, sheet |-> s,
     addrs |-> print_aligned_console_diff(
                  DisplayAddresses(SnapGet(baseline_cells, s), SnapGet(current_data, s)),
                  MAX_CHANGES_TO_DISPLAY)] :
      s \in ChangedSheets(baseline_cells, current_data) }

\* faulty variant: the log call without the `if not is_polling` guard
WritesLogWhenPolling(silent, is_polling) == ~silent

\* whether the pass writes the change log: `if not silent` and `if not is_polling`
WritesLog(silent, is_polling) == ~silent /\ ~is_polling

\* whether the pass may display and update the baseline: `if not silent`
Visible(silent) == ~silent

\* failures of the environment: the baseline cannot be loaded, the workbook
\* cannot be read or its reading or comparison raises, the author is unknown,
\* the baseline is not saved, the stat or the save raises
LoadRaises == IF faults THEN {FALSE, TRUE} ELSE {FALSE}
ReadOutcomes == IF faults THEN {"ok", "unreadable", "error"} ELSE {"ok"}
Authors == IF faults THEN {"user", NoAuthor} ELSE {"user"}
SaveOutcomes == IF faults THEN {"saved", "failed", "error"} ELSE {"saved"}

CmpRead(p) ==
  /\ cmp[p].phase \in {"read", "retry"}
  /\ \E outcome \in ReadOutcomes, author \in Authors :
       LET c == cmp[p]
           f == c.file
           current_data == CurrentCells(f)
           baseline_cells == c.old_baseline.cells
       IN  CASE outcome = "unreadable" ->
                  /\ author = "user"
                  /\ IF c.phase = "read"
                     THEN /\ cmp' = [cmp EXCEPT ![p] = [c EXCEPT !.phase = "retry"]]
                          /\ console' = {}
                     ELSE /\ cmp' = [cmp EXCEPT ![p] = ReturnReadFailed(c)]
                          /\ console' = IF ~c.silent THEN {Out("read_failed", f)} ELSE {}
                  /\ UNCHANGED <<log, recent>>
             [] outcome = "error" ->
                  /\ author = "user"
                  /\ cmp' = [cmp EXCEPT ![p] = OnException(c)]
                  /\ console' = ErrorOutput(f, c.silent)
                  /\ UNCHANGED <<log, recent>>
             [] outcome = "ok" /\ baseline_cells = current_data ->
                  /\ author = "user"
                  /\ cmp' = [cmp EXCEPT ![p] = ReturnNoChange(c)]
                  /\ console' = IF c.is_polling THEN {Out("polling_nochange", f)} ELSE {}
                  /\ UNCHANGED <<log, recent>>
             [] outcome = "ok" /\ baseline_cells # current_data ->
                  LET st == IF WritesLog(c.silent, c.is_polling)
                            THEN LogSheets([log |-> log, recent |-> recent],
                                           ChangedSheets(baseline_cells, current_data),
                                           f, baseline_cells, current_data, author, now)
                            ELSE [log |-> log, recent |-> recent]
                  IN  /\ log' = st.log
                      /\ recent' = st.recent
                      /\ console' = (IF Visible(c.silent)
                                     THEN DiffTables(f, baseline_cells, current_data) ELSE {})
                                    \cup (IF st.log # log THEN {Out("csv_logged", f)} ELSE {})
                      /\ IF Visible(c.silent) /\ settings.AUTO_UPDATE_BASELINE_AFTER_COMPARE
                         THEN cmp' = [cmp EXCEPT ![p] = [c EXCEPT !.phase = "save",
                                                                  !.current_data = current_data,
                                                                  !.new_author = author,
                                                                  !.read_stat = StatOf(f)]]
                         ELSE cmp' = [cmp EXCEPT ![p] = CmpReturn(c, any_sheet_has_changes(
                                                            baseline_cells, current_data), "changed")]
  /\ UNCHANGED <<now, files, writesLeft, pending, settings, faults, monitor_only, excluded, copy, processing,
                 locking,
                 call, baseline,
                 last_event_times, event_counter, router, polling_tasks, timers, stop_event,
                 mainpc>>

\* save_baseline(base_key, updated_baseline): replaces the stored baseline
save_baseline(f, data) == [baseline EXCEPT ![f] = data]

\* faulty variant: the pass returns whether the baseline was saved
AfterSaveReturnsSaved(c, saved) == CmpReturn(c, saved, "changed")

\* `return any_sheet_has_changes` after the update of the baseline, saved or not
AfterSave(c, saved) ==
  CmpReturn(c, any_sheet_has_changes(c.old_baseline.cells, c.current_data), "changed")

CmpSave(p) ==
  /\ cmp[p].phase = "save"
  /\ \E outcome \in SaveOutcomes :
       LET c == cmp[p]
           f == c.file
           saved == outcome = "saved"
           updated_baseline == [exists |-> TRUE, cells |-> c.current_data, has_stat |-> TRUE,
                                source_mtime |-> getmtime(f), source_size |-> getsize(f),
                                last_author |-> c.new_author]
       IN  IF outcome = "error"
           THEN /\ baseline' = baseline
                /\ console' = {Out("auto_update", f)} \cup ErrorOutput(f, c.silent)
                /\ cmp' = [cmp EXCEPT ![p] = OnException(c)]
           ELSE /\ baseline' = IF saved THEN save_baseline(f, updated_baseline) ELSE baseline
                /\ console' = {Out("auto_update", f)}
                              \cup (IF saved THEN {} ELSE {Out("save_warning", f)})
                /\ cmp' = [cmp EXCEPT ![p] = AfterSave(c, saved)]
  /\ UNCHANGED <<now, files, writesLeft, pending, settings, faults, monitor_only, excluded, copy, processing,
                 locking,
                 call, log, recent,
                 last_event_times, event_counter, router, polling_tasks, timers, stop_event,
                 mainpc>>


(***************************************************************************)
(* Polling Scheduler: ActivePollingHandler (core/watcher.py).  A timer is  *)
(* free (no such object, or cancelled, or its callback has returned),      *)
(* pending (started, neither fired nor cancelled), comparing (callback     *)
(* inside compare_excel_changes) or finishing (callback about to take the  *)
(* lock).  The sections under self.lock are single steps.                  *)
(***************************************************************************)
PendingTimers(f) == { t \in TimerIds : timers[t].state = "pending" /\ timers[t].file = f }

FreeIds == { t \in TimerIds : timers[t].state = "free" }

\* timer.cancel(): stops a timer that has not fired yet, no effect otherwise
Cancelled(tm, ids) ==
  [t \in TimerIds |-> IF t \in ids /\ tm[t].state = "pending" THEN FreeTimer ELSE tm[t]]

PollingInterval(f) ==
  IF getsize(f) < POLLING_SIZE_THRESHOLD_MB * 1024 * 1024
  THEN DENSE_POLLING_INTERVAL_SEC ELSE SPARSE_POLLING_INTERVAL_SEC

\* start_polling + _start_adaptive_polling, installing the new timer as t
start_polling(f, t) ==
  LET interval == PollingInterval(f)
      last_mtime == getmtime(f)
  IN  /\ timers' = [Cancelled(timers, {polling_tasks[f]}) EXCEPT
                      ![t] = [state |-> "pending", file |-> f, interval |-> interval,
                              remaining |-> interval, last_mtime |-> last_mtime,
                              has_changes |-> FALSE]]
      /\ polling_tasks' = [polling_tasks EXCEPT ![f] = t]

\* faulty variant: the callback compares at every firing
MtimeAlwaysChanged(current_mtime, last_mtime) == TRUE

\* `if current_mtime != last_mtime`
MtimeChanged(current_mtime, last_mtime) == current_mtime # last_mtime

\* the timer fires: _poll_for_stability up to the call of compare_excel_changes
TimerFire(t) ==
  /\ timers[t].state = "pending"
  /\ timers[t].remaining = 0
  /\ LET f == timers[t].file
         current_mtime == getmtime(f)
     IN  IF stop_event
         THEN /\ timers' = [timers EXCEPT ![t] = FreeTimer]
              /\ polling_tasks' = [g \in Files |->
                    IF polling_tasks[g] = t THEN FinishedTimer ELSE polling_tasks[g]]
              /\ cmp' = cmp
              /\ console' = {}
         ELSE IF MtimeChanged(current_mtime, timers[t].last_mtime)
         THEN /\ timers' = [timers EXCEPT ![t] = [@ EXCEPT !.state = "comparing",
                                                           !.last_mtime = current_mtime]]
              /\ \E raised \in LoadRaises :
                   /\ cmp' = [cmp EXCEPT ![t] = CmpBegin(f, FALSE, TRUE, raised)]
                   /\ console' = BeginOutput(f, FALSE, raised)
              /\ polling_tasks' = polling_tasks
         ELSE /\ timers' = [timers EXCEPT ![t] = [@ EXCEPT !.state = "finishing",
                                                           !.has_changes = FALSE]]
              /\ cmp' = cmp
              /\ polling_tasks' = polling_tasks
              /\ console' = {}
  /\ UNCHANGED <<now, files, writesLeft, pending, settings, faults, monitor_only, excluded, copy, processing,
                 locking,
                 call, baseline, log,
                 recent, last_event_times, event_counter, router, stop_event, mainpc>>

\* faulty variants: a callback that never / always schedules another timer
ReschedulesNever(has_changes) == FALSE
ReschedulesAlways(has_changes) == TRUE

\* whether the callback's locked section schedules another timer: `if has_changes`
Reschedules(has_changes) == has_changes

\* has_changes of the callback run by timer t when it reaches the lock
HasChanges(t) ==
  IF timers[t].state = "comparing" THEN cmp[t].result ELSE timers[t].has_changes

\* _poll_for_stability from `with self.lock` to the end
PollFinish(t) ==
  /\ \/ timers[t].state = "finishing"
     \/ timers[t].state = "comparing" /\ cmp[t].phase = "done"
  /\ LET f == timers[t].file
     IN  IF polling_tasks[f] = NoTask
         THEN /\ timers' = [timers EXCEPT ![t] = FreeTimer]
              /\ polling_tasks' = polling_tasks
              /\ console' = {}
         ELSE IF Reschedules(HasChanges(t))
         THEN /\ timers' = [timers EXCEPT ![t] = [@ EXCEPT !.state = "pending",
                                                           !.remaining = timers[t].interval,
                                                           !.has_changes = FALSE]]
              /\ polling_tasks' = [polling_tasks EXCEPT ![f] = t]
              /\ console' = {Out("polling_extended", f)}
         ELSE /\ timers' = [timers EXCEPT ![t] = FreeTimer]
              /\ polling_tasks' = [polling_tasks EXCEPT ![f] = NoTask]
              /\ console' = {Out("polling_stable", f)}
  /\ cmp' = [cmp EXCEPT ![t] = IdleCmp]
  /\ UNCHANGED <<now, files, writesLeft, pending, settings, faults, monitor_only, excluded, copy, processing,
                 locking,
                 call, baseline, log,
                 recent, last_event_times, event_counter, router, stop_event, mainpc>>

\* ActivePollingHandler.stop()
stop ==
  /\ stop_event' = TRUE
  /\ timers' = Cancelled(timers, { polling_tasks[f] : f \in Files })
  /\ polling_tasks' = [f \in Files |-> NoTask]

(***************************************************************************)
(* File Event Router: ExcelFileEventHandler.on_modified (core/watcher.py), *)
(* run by the single notification thread.                                  *)
(***************************************************************************)
Observing == mainpc \in {"watching", "signalled"}

\* faulty variant: no notification is dropped
NeverDebounced(f) == FALSE

\* the debounce test: `if file_path in self.last_event_times` and
\* `current_time - self.last_event_times[file_path] < DEBOUNCE_INTERVAL_SEC`;
\* last_event_times[f] holds the time passed since the remembered moment
Debounced(f) ==
  last_event_times[f] # NoEvent /\ last_event_times[f] < DEBOUNCE_INTERVAL_SEC

\* on_modified up to the call of the quiet preview pass
OnModified(f) ==
  /\ Observing
  /\ router.pc = "idle"
  /\ pending[f] > 0
  /\ pending' = [pending EXCEPT ![f] = @ - 1]
  /\ IF Debounced(f)
     THEN /\ UNCHANGED <<last_event_times, event_counter, router, cmp>>
          /\ console' = {}
     ELSE /\ last_event_times' = [last_event_times EXCEPT ![f] = 0]
          /\ event_counter' = event_counter + 1
          /\ router' = [pc |-> "preview", file |-> f]
          /\ \E raised \in LoadRaises :
               /\ cmp' = [cmp EXCEPT ![ROUTER] = CmpBegin(f, TRUE, FALSE, raised)]
               /\ console' = BeginOutput(f, TRUE, raised)
  /\ UNCHANGED <<now, files, writesLeft, settings, faults, monitor_only, excluded, copy, processing,
                 locking,
                 call, baseline, log, recent,
                 polling_tasks, timers, stop_event, mainpc>>

\* faulty variant: the full pass is run whether the file is polled or not
RouterCheckAlwaysFull(f, out) ==
  /\ router' = [pc |-> "full", file |-> f]
  /\ \E raised \in LoadRaises :
       /\ cmp' = [cmp EXCEPT ![ROUTER] = CmpBegin(f, FALSE, FALSE, raised)]
       /\ console' = out \cup {Out("immediate_check", f)} \cup BeginOutput(f, FALSE, raised)

\* on_modified from the polling_tasks check to the call of the full pass
RouterCheck(f, out) ==
  IF polling_tasks[f] # NoTask
  THEN /\ router' = RouterIdle
       /\ cmp' = [cmp EXCEPT ![ROUTER] = IdleCmp]
       /\ console' = out \cup {Out("polling_active", f)}
  ELSE /\ router' = [pc |-> "full", file |-> f]
       /\ \E raised \in LoadRaises :
            /\ cmp' = [cmp EXCEPT ![ROUTER] = CmpBegin(f, FALSE, FALSE, raised)]
            /\ console' = out \cup {Out("immediate_check", f)} \cup BeginOutput(f, FALSE, raised)

\* faulty variant: no file is treated as monitor-only
NeverMonitorOnly(f) == FALSE

\* _is_monitor_only(path): under a monitor-only folder and not, unless
\* excluded, under a watch folder
is_monitor_only(f) == f \in monitor_only

\* the first baseline of a monitor-only file: bdata of on_modified, which
\* has no source_mtime and no source_size
FirstBaseline(f, last_author) ==
  [exists |-> TRUE, cells |-> CurrentCells(f), has_stat |-> FALSE, source_mtime |-> 0,
   source_size |-> 0, last_author |-> last_author]

\* on_modified after the preview pass: announcement, monitor-only branch, check
RouterAfterPreview ==
  /\ router.pc = "preview"
  /\ cmp[ROUTER].phase = "done"
  /\ LET f == router.file
         announce == IF cmp[ROUTER].result THEN {Out("announce", f)} ELSE {}
     IN  IF is_monitor_only(f) /\ ~baseline[f].exists
         THEN \E outcome \in ReadOutcomes, author \in Authors,
                 saved \in { o = "saved" : o \in SaveOutcomes \ {"error"} } :
                CASE outcome = "ok" ->
                       /\ baseline' = IF saved
                            THEN save_baseline(f, FirstBaseline(f, author))
                            ELSE baseline
                       /\ router' = RouterIdle
                       /\ cmp' = [cmp EXCEPT ![ROUTER] = IdleCmp]
                       /\ console' = announce \cup {Out("monitor_only", f),
                                                    Out("first_baseline", f)}
                  [] outcome = "error" ->
                       /\ saved /\ author = "user"
                       /\ router' = RouterIdle
                       /\ cmp' = [cmp EXCEPT ![ROUTER] = IdleCmp]
                       /\ console' = announce
                       /\ baseline' = baseline
                  [] outcome = "unreadable" ->
                       /\ saved /\ author = "user"
                       /\ baseline' = baseline
                       /\ RouterCheck(f, announce \cup {Out("monitor_only", f)})
         ELSE /\ baseline' = baseline
              /\ RouterCheck(f, announce \cup (IF is_monitor_only(f)
                                               THEN {Out("monitor_only", f)} ELSE {}))
  /\ UNCHANGED <<now, files, writesLeft, pending, settings, faults, monitor_only, excluded, copy, processing,
                 locking,
                 call, log, recent,
                 last_event_times, event_counter, polling_tasks, timers, stop_event, mainpc>>

\* faulty variant: polling starts only after a full pass that found a change
StartsPollingOnChange(has_changes) == has_changes

\* whether on_modified goes on to start_polling after the full pass: the
\* `if has_changes / else` before the call only chooses the message
StartsPolling(has_changes) == TRUE

\* on_modified after the full pass: start_polling
RouterStartPolling ==
  /\ router.pc = "full"
  /\ cmp[ROUTER].phase = "done"
  /\ FreeIds # {}
  /\ IF StartsPolling(cmp[ROUTER].result)
     THEN start_polling(router.file, CHOOSE t \in FreeIds : \A u \in FreeIds : t <= u)
     ELSE UNCHANGED <<polling_tasks, timers>>
  /\ router' = RouterIdle
  /\ cmp' = [cmp EXCEPT ![ROUTER] = IdleCmp]
  /\ console' = {Out("polling_started", router.file)}
  /\ UNCHANGED <<now, files, writesLeft, pending, settings, faults, monitor_only, excluded, copy, processing,
                 locking,
                 call, baseline, log,
                 recent, last_event_times, event_counter, stop_event, mainpc>>

(***************************************************************************)
(* Shutdown (main.py): signal_handler calls stop(); the main loop then     *)
(* leaves, stops and joins the observer and calls stop() once more.        *)
(***************************************************************************)
Signal ==
  /\ mainpc = "watching"
  /\ stop
  /\ mainpc' = "signalled"
  /\ console' = {}
  /\ UNCHANGED <<now, files, writesLeft, pending, settings, faults, monitor_only, excluded, copy, processing,
                 locking,
                 call, baseline, log,
                 recent, last_event_times, event_counter, router, cmp>>

ObserverJoin ==
  /\ mainpc = "signalled"
  /\ router.pc = "idle"
  /\ mainpc' = "joined"
  /\ console' = {}
  /\ UNCHANGED <<now, files, writesLeft, pending, settings, faults, monitor_only, excluded, copy, processing,
                 locking,
                 call, baseline, log,
                 recent, last_event_times, event_counter, router, polling_tasks, timers,
                 stop_event, cmp>>

FinalStop ==
  /\ mainpc = "joined"
  /\ stop
  /\ mainpc' = "exited"
  /\ console' = {}
  /\ UNCHANGED <<now, files, writesLeft, pending, settings, faults, monitor_only, excluded, copy, processing,
                 locking,
                 call, baseline, log,
                 recent, last_event_times, event_counter, router, cmp>>

Next ==
  \/ Tick
  \/ \E f \in Files, c \in Contents : Write(f, c)
  \/ \E f \in Files : OnModified(f)
  \/ \E p \in Comparers : CmpRead(p)
  \/ \E p \in Comparers : CmpSave(p)
  \/ RouterAfterPreview
  \/ RouterStartPolling
  \/ \E t \in TimerIds : TimerFire(t)
  \/ \E t \in TimerIds : PollFinish(t)
  \/ Signal
  \/ ObserverJoin
  \/ FinalStop

Spec == Init /\ [][Next]_vars

(***************************************************************************)
(* The Comparison Engine on its own: passes of compare_excel_changes with  *)
(* any flags, one after the other, on a file that is not being written.    *)
(***************************************************************************)
Compare(f, silent, is_polling) ==
  /\ cmp[ROUTER].phase \in {"idle", "done"}
  /\ \E raised \in LoadRaises :
       /\ cmp' = [cmp EXCEPT ![ROUTER] = CmpBegin(f, silent, is_polling, raised)]
       /\ console' = BeginOutput(f, silent, raised)
  /\ UNCHANGED <<now, files, writesLeft, pending, settings, faults, monitor_only, excluded, copy, processing,
                 locking,
                 call, baseline, log,
                 recent, last_event_times, event_counter, router, polling_tasks, timers,
                 stop_event, mainpc>>

NextCompare ==
  \/ \E f \in Files, silent \in BOOLEAN, is_polling \in BOOLEAN : Compare(f, silent, is_polling)
  \/ CmpRead(ROUTER)
  \/ CmpSave(ROUTER)

SpecCompare == InitCompare /\ [][NextCompare]_vars

\* the Event Router with excluded and monitor-only folders configured
SpecFolders == InitFolders /\ [][Next]_vars

(***************************************************************************)
(* The Spreadsheet Reader's formula text and the Change Classifier on      *)
(* their own: one call of pretty_formula, classify_change_type or          *)
(* analyze_meaningful_changes at a time, on inputs drawn from the sets     *)
(* below, under any setting of the four category switches.                 *)
(***************************************************************************)
FormulaSumB3 == <<"=", "B", "1", "+", "B", "3">>

\* external references as the workbook's XML holds them: to a cell of a sheet,
\* the same with the sheet in quotes, to a name of the workbook
RawExternal == <<"=", "[", "1", "]", "S", "!", "A", "1">>
RawExternalQuoted == <<"=", "'", "[", "1", "]", "S", " ", "2", "'", "!", "A", "1">>
RawExternalName == <<"=", "[", "1", "]", "!", "n">>

RawExternals == {RawExternal, RawExternalQuoted, RawExternalName}
RawFormulas == {FormulaSum, FormulaSumB3} \cup RawExternals

\* extract_external_refs: no link table, or link 1 with its path
NoRefs == [n \in {} |-> << >>]
RefMaps ==
  { NoRefs,
    [n \in {<<"1">>} |-> <<"C", ":", "\\", "d", "\\", "b", ".", "x">>],
    [n \in {<<"1">>} |-> <<"C", ":", "/", "d", "/", "b", ".", "x">>],
    [n \in {<<"1">>} |-> <<"b", ".", "x">>] }

\* the formula texts the reader stores
ReaderFormulas == { pretty_formula(r, m) : r \in RawFormulas, m \in RefMaps }

\* references to a cell of another workbook as the reader stores them: the raw
\* form when the workbook has no link table, the path form otherwise
ExternalFormulas ==
  { pretty_formula(r, m) : r \in {RawExternal, RawExternalQuoted}, m \in RefMaps }

CellValues == {NULL, "1", "2"}

\* cell records: {} for an absent address, else formula (None, '', a text) and value
CellSpace ==
  {EmptyCell} \cup { Cell(f, v) : f \in {NoFormula, << >>} \cup ReaderFormulas, v \in CellValues }

\* sheets of at most two cells
SheetCells ==
  { Cell(f, v) : f \in {NoFormula, FormulaSum, pretty_formula(RawExternal, CHOOSE m \in RefMaps : m # NoRefs)},
                 v \in {"1", "2"} } \cup {Cell(FormulaSumB3, "1")}

SheetSpace ==
  { [a \in d |-> IF a = "A1" THEN c1 ELSE c2] :
      d \in SUBSET {"A1", "B2"}, c1 \in SheetCells, c2 \in SheetCells }

\* a formula cell to which the cached-result lookup (ENABLE_FORMULA_VALUE_CHECK)
\* has attached the result the workbook stores for it
CachedCell(f, v, c) == [formula |-> f, value |-> v, cached_value |-> c]

\* sheets of at most one formula cell, read with the cached-result lookup
CachedSheetSpace ==
  { [a \in d |-> c] :
      d \in SUBSET {"A1"},
      c \in { CachedCell(FormulaSum, "1", r) : r \in {"10", "11"} }
             \cup { CachedCell(FormulaSum, "2", "10"), CachedCell(FormulaSumB3, "1", "10") } }

\* sheets for the on-screen table: up to two value cells, or one formula cell
\* with its cached result
DisplaySheetSpace ==
  { ws \in SheetSpace : \A a \in DOMAIN ws : ws[a].formula = NoFormula } \cup CachedSheetSpace

\* settings.MAX_CHANGES_TO_DISPLAY: no limit, the smallest limit, the default
DisplayLimits == {0, 1, MAX_CHANGES_TO_DISPLAY}

CategorySettings ==
  { st \in SettingsSpace : st.AUTO_UPDATE_BASELINE_AFTER_COMPARE /\ st.QUICK_SKIP_BY_STAT }

InitClassifier ==
  /\ InitIdle
  /\ files = [f \in Files |-> [content |-> 1, mtime |-> InitialMtime]]
  /\ baseline = [f \in Files |-> NoBaseline]
  /\ settings \in CategorySettings
  /\ faults = FALSE

Pretty(formula, ref_map) ==
  /\ call = NoCall
  /\ call' = [fn |-> "pretty_formula", formula |-> formula, ref_map |-> ref_map,
              result |-> pretty_formula(formula, ref_map)]
  /\ UNCHANGED <<envVars, pending, baseline, log, recent, console, last_event_times, event_counter,
                 router, polling_tasks, timers, stop_event, mainpc, cmp>>

Classify(old_cell, new_cell) ==
  /\ call = NoCall
  /\ call' = [fn |-> "classify_change_type", old_cell |-> old_cell, new_cell |-> new_cell,
              result |-> classify_change_type(old_cell, new_cell)]
  /\ UNCHANGED <<envVars, pending, baseline, log, recent, console, last_event_times, event_counter,
                 router, polling_tasks, timers, stop_event, mainpc, cmp>>

Analyze(old_ws, new_ws) ==
  /\ call = NoCall
  /\ call' = [fn |-> "analyze_meaningful_changes", old_ws |-> old_ws, new_ws |-> new_ws,
              result |-> analyze_meaningful_changes(old_ws, new_ws, settings)]
  /\ UNCHANGED <<envVars, pending, baseline, log, recent, console, last_event_times, event_counter,
                 router, polling_tasks, timers, stop_event, mainpc, cmp>>

\* the on-screen table of one sheet in the sheet loop of compare_excel_changes
Display(old_ws, new_ws, max_display_changes) ==
  /\ call = NoCall
  /\ call' = [fn |-> "print_aligned_console_diff", old_ws |-> old_ws, new_ws |-> new_ws,
              max_display_changes |-> max_display_changes,
              result |-> print_aligned_console_diff(DisplayAddresses(old_ws, new_ws),
                                                    max_display_changes)]
  /\ UNCHANGED <<envVars, pending, baseline, log, recent, console, last_event_times, event_counter,
                 router, polling_tasks, timers, stop_event, mainpc, cmp>>

\* the call returns
Return ==
  /\ call # NoCall
  /\ call' = NoCall
  /\ UNCHANGED <<envVars, pending, baseline, log, recent, console, last_event_times, event_counter,
                 router, polling_tasks, timers, stop_event, mainpc, cmp>>

NextClassifier ==
  \/ \E formula \in {NoFormula} \cup RawFormulas, ref_map \in RefMaps : Pretty(formula, ref_map)
  \/ \E old_cell \in CellSpace, new_cell \in CellSpace : Classify(old_cell, new_cell)
  \/ \E old_ws \in SheetSpace, new_ws \in SheetSpace : Analyze(old_ws, new_ws)
  \/ \E old_ws \in CachedSheetSpace, new_ws \in CachedSheetSpace : Analyze(old_ws, new_ws)
  \/ \E old_ws \in DisplaySheetSpace, new_ws \in DisplaySheetSpace, m \in DisplayLimits :
       Display(old_ws, new_ws, m)
  \/ Return

SpecClassifier == InitClassifier /\ [][NextClassifier]_vars

(***************************************************************************)
(* log_meaningful_changes_to_csv on its own: calls with lists of change    *)
(* records, at moments before, at and after the end of the                 *)
(* recent-duplicate window.                                                *)
(***************************************************************************)
MaxLogRows == 3

\* the moments of the calls
LogTimes ==
  {0, 1, LOG_DEDUP_WINDOW_SEC, LOG_DEDUP_WINDOW_SEC + 1,
   2 * LOG_DEDUP_WINDOW_SEC + 1, 2 * LOG_DEDUP_WINDOW_SEC + 2}

LogSheetNames == {"Sheet1", "Sheet2"}

\* two change records of one sheet, as analyze_meaningful_changes makes them
LogRecords ==
  analyze_meaningful_changes([a \in {"A1"} |-> Cell(NoFormula, "1")],
                             [a \in {"A1", "B2"} |-> Cell(NoFormula, "2")], DefaultSettings)

\* the lists of change records: every order of every set of them
ChangeLists ==
  { l \in UNION { [1..n -> LogRecords] : n \in 0..Cardinality(LogRecords) } :
      \A i \in DOMAIN l, j \in DOMAIN l : l[i] = l[j] => i = j }

LogAuthors == {"user", "N/A", NoAuthor}

InitLog ==
  /\ InitIdle
  /\ files = [f \in Files |-> [content |-> 1, mtime |-> InitialMtime]]
  /\ baseline = [f \in Files |-> NoBaseline]
  /\ settings = DefaultSettings
  /\ faults = FALSE

\* time passes until the moment of the next call
LogElapse(t) ==
  /\ t > now
  /\ now' = t
  /\ UNCHANGED <<files, writesLeft, pending, settings, faults, monitor_only, excluded, copy, processing,
                 locking,
                 call, baseline, log,
                 recent, console, last_event_times, event_counter, router, polling_tasks, timers,
                 stop_event, mainpc, cmp>>

\* one call of log_meaningful_changes_to_csv
LogCall(file_path, worksheet_name, changes, current_author) ==
  /\ Len(log) < MaxLogRows
  /\ LET st == log_meaningful_changes_to_csv([log |-> log, recent |-> recent], file_path,
                                             worksheet_name, normalized_changes(changes),
                                             current_author, now)
     IN  /\ log' = st.log
         /\ recent' = st.recent
  /\ call' = [fn |-> "log_meaningful_changes_to_csv", file_path |-> file_path,
              worksheet_name |-> worksheet_name, changes |-> changes,
              current_author |-> current_author, t |-> now]
  /\ UNCHANGED <<envVars, pending, baseline, console, last_event_times, event_counter,
                 router, polling_tasks, timers, stop_event, mainpc, cmp>>

NextLog ==
  \/ \E t \in LogTimes : LogElapse(t)
  \/ \E f \in Files, s \in LogSheetNames, changes \in ChangeLists, a \in LogAuthors :
       LogCall(f, s, changes, a)

SpecLog == InitLog /\ [][NextLog]_vars

(***************************************************************************)
(* Scheduling: the clock runs, every thread that can take a step           *)
(* eventually takes it, a timer that has expired fires, and after the      *)
(* interrupt the main thread goes on to the end of main().  The writer and *)
(* the interrupt are free.                                                 *)
(***************************************************************************)
Fairness ==
  /\ WF_vars(Tick)
  /\ \A f \in Files : WF_vars(OnModified(f))
  /\ \A p \in Comparers : WF_vars(CmpRead(p)) /\ WF_vars(CmpSave(p))
  /\ WF_vars(RouterAfterPreview)
  /\ WF_vars(RouterStartPolling)
  /\ \A t \in TimerIds : WF_vars(TimerFire(t)) /\ WF_vars(PollFinish(t))
  /\ WF_vars(ObserverJoin)
  /\ WF_vars(FinalStop)

FairSpec == InitFaults /\ [][Next]_vars /\ Fairness

TypeOK ==
  /\ now \in 0..MaxTime
  /\ writesLeft \in 0..MaxWrites
  /\ \A f \in Files : polling_tasks[f] \in TimerIds \cup {NoTask, FinishedTimer}


(***************************************************************************)
(* utils/cache.py: copy_to_cache and _wait_for_stable_mtime, called on     *)
(* their own.  The settings of the call are drawn at the start; the        *)
(* source's state, the readings of its modification time and the outcome   *)
(* of each copy are the environment's.  Time is counted in seconds, the    *)
(* loop of _wait_for_stable_mtime is charged its sleeps.                   *)
(***************************************************************************)
\* COPY_RETRY_COUNT is drawn from 0..MaxRetry
MaxRetry == 2
\* COPY_STABILITY_CHECKS is drawn from {0} and 2..MaxChecks
MaxChecks == 3
\* COPY_STABILITY_MAX_WAIT_SEC is drawn from 1..MaxWait
MaxWait == 2

CopySettings ==
  [USE_LOCAL_CACHE : BOOLEAN,
   STRICT_NO_ORIGINAL_READ : BOOLEAN,
   COPY_RETRY_COUNT : 0..MaxRetry,
   COPY_RETRY_BACKOFF_SEC : {0, 1},
   COPY_STABILITY_CHECKS : {0} \cup 2..MaxChecks,
   COPY_STABILITY_INTERVAL_SEC : {1},
   COPY_STABILITY_MAX_WAIT_SEC : 1..MaxWait,
   COPY_ENGINE : {"python", "robocopy"},
   COPY_CHUNK_SIZE_MB : {0, 4}]

\* what the call finds at the source path
SourceStates == {"in_cache", "missing", "unreadable", "io_error", "cache_fresh", "to_copy"}
\* os.path.getmtime(path): a modification time, or the call raises
ReadFailed == -1
Readings == {1, 2} \cup {ReadFailed}
NoReading == 0

\* retry = max(1, int(COPY_RETRY_COUNT))
retry(c) == Max(1, c.COPY_RETRY_COUNT)
\* backoff = max(0.0, float(COPY_RETRY_BACKOFF_SEC))
backoff(c) == Max(0, c.COPY_RETRY_BACKOFF_SEC)
\* chunk_mb = max(0, int(COPY_CHUNK_SIZE_MB))
chunk_mb(c) == Max(0, c.COPY_CHUNK_SIZE_MB)
\* st_checks = max(1, int(COPY_STABILITY_CHECKS))
st_checks(c) == Max(1, c.COPY_STABILITY_CHECKS)
st_interval(c) == Max(0, c.COPY_STABILITY_INTERVAL_SEC)
st_maxwait(c) == c.COPY_STABILITY_MAX_WAIT_SEC

\* the same wait after every attempt
FlatWait(c, attempt) == backoff(c)
\* time.sleep(backoff * attempt)
RetryWait(c, attempt) == backoff(c) * attempt

\* the source path whatever the mode
FallbackAlways(c) == "network_path"
\* return None if STRICT_NO_ORIGINAL_READ else network_path
Fallback(c) == IF c.STRICT_NO_ORIGINAL_READ THEN "None" ELSE "network_path"

\* one reading is taken for a settled file
AnyReadingStable(same, checks) == same >= 1
\* if same >= checks: return True
StableReached(same, checks) == same >= checks

\* the copy an attempt runs: _run_subprocess_copy, _chunked_copy or shutil.copy2
CopyStrategy(c) ==
  IF c.COPY_ENGINE \in {"robocopy", "powershell"} THEN "external"
  ELSE IF chunk_mb(c) > 0 THEN "chunked" ELSE "single"

\* _ops_log_copy_success(network_path, duration, attempt, engine='python', chunk_mb=chunk_mb)
SuccessRow(c, attempt) ==
  [log |-> "copy_success", Attempts |-> attempt, Engine |-> "python", ChunkMB |-> chunk_mb(c)]
\* _ops_log_copy_failure(network_path, last_err, attempt, strict)
FailureRow(c, attempt) ==
  [log |-> "copy_failures", Attempts |-> attempt,
   STRICT_NO_ORIGINAL_READ |-> c.STRICT_NO_ORIGINAL_READ,
   COPY_CHUNK_SIZE_MB |-> c.COPY_CHUNK_SIZE_MB, BACKOFF_SEC |-> c.COPY_RETRY_BACKOFF_SEC]

InitCopy ==
  /\ InitWatcher
  /\ monitor_only = {}
  /\ excluded = {}
  /\ files = [f \in Files |-> [content |-> 1, mtime |-> 0, size_mb |-> 1]]
  /\ baseline = [f \in Files |-> NoBaseline]
  /\ settings = DefaultSettings
  /\ faults = FALSE
  /\ processing = IdleProcessing
  /\ locking = NoLocking
  /\ \E c \in CopySettings : copy = [NoCopy EXCEPT !.cfg = c]

\* the function returns
Returned(cp, value) == [cp EXCEPT !.pc = "done", !.result = value]

\* the top of the for loop: the stability wait of the attempt begins, or its copy
BeginAttempt(cp, k) ==
  IF st_checks(cp.cfg) > 1
    THEN [cp EXCEPT !.pc = "wait", !.attempt = k, !.checks = st_checks(cp.cfg),
                    !.last = NoReading, !.same = 0, !.elapsed = 0, !.readings = << >>]
    ELSE [cp EXCEPT !.pc = "copy", !.attempt = k]

\* after the loop: the failure row, then nothing or the source path
AfterLoop(cp) ==
  Returned([cp EXCEPT !.rows = Append(@, FailureRow(cp.cfg, cp.attempt))], Fallback(cp.cfg))

\* the for loop goes on to its next value, or is exhausted
NextAttempt(cp) ==
  IF cp.attempt < retry(cp.cfg) THEN BeginAttempt(cp, cp.attempt + 1) ELSE AfterLoop(cp)

\* copy_to_cache(network_path) up to the first attempt
CopyCall(src) ==
  /\ copy.pc = "idle"
  /\ copy' =
       LET cp == [copy EXCEPT !.fn = "copy_to_cache", !.src = src] IN
       IF ~cp.cfg.USE_LOCAL_CACHE
         THEN Returned(cp, IF cp.cfg.STRICT_NO_ORIGINAL_READ THEN "None" ELSE "network_path")
       ELSE IF src = "io_error" THEN Returned(cp, Fallback(cp.cfg))
       ELSE IF src = "in_cache" THEN Returned(cp, "network_path")
       ELSE IF src \in {"missing", "unreadable"} THEN Returned(cp, Fallback(cp.cfg))
       ELSE IF src = "cache_fresh" THEN Returned(cp, "cache_file")
       ELSE BeginAttempt(cp, 1)
  /\ UNCHANGED <<handlerVars, processing, locking>>

\* _wait_for_stable_mtime(path, checks, interval, max_wait) called with the settings as they are
WaitCall ==
  /\ copy.pc = "idle"
  /\ copy' =
       LET cp == [copy EXCEPT !.fn = "_wait_for_stable_mtime",
                              !.checks = copy.cfg.COPY_STABILITY_CHECKS] IN
       IF cp.checks <= 1 THEN Returned(cp, "True")
       ELSE [cp EXCEPT !.pc = "wait", !.last = NoReading, !.same = 0, !.elapsed = 0,
                       !.readings = << >>]
  /\ UNCHANGED <<handlerVars, processing, locking>>

\* _wait_for_stable_mtime returns to its caller
WaitReturns(cp, stable_ok) ==
  IF cp.fn = "_wait_for_stable_mtime" THEN Returned(cp, IF stable_ok THEN "True" ELSE "False")
  ELSE IF stable_ok THEN [cp EXCEPT !.pc = "copy"]
  ELSE NextAttempt([cp EXCEPT !.unstable = @ \cup {cp.attempt},
                              !.waits = Append(@, [attempt |-> cp.attempt,
                                                   sec |-> RetryWait(cp.cfg, cp.attempt)])])

\* one turn of the loop of _wait_for_stable_mtime: the reading, the count,
\* the two exits, the sleep
WaitRead(cur) ==
  /\ copy.pc = "wait"
  /\ copy' =
       LET cp == [copy EXCEPT !.readings = Append(@, cur)] IN
       IF cur = ReadFailed THEN WaitReturns(cp, FALSE)
       ELSE
         LET same == IF copy.last = NoReading THEN 1
                     ELSE IF cur = copy.last THEN copy.same + 1 ELSE 1
             counted == [cp EXCEPT !.last = cur, !.same = same]
         IN  IF StableReached(same, copy.checks) THEN WaitReturns(counted, TRUE)
             ELSE IF copy.elapsed >= st_maxwait(copy.cfg)
               THEN WaitReturns([counted EXCEPT !.timed_out = @ \cup {copy.attempt}], FALSE)
             ELSE [counted EXCEPT !.elapsed = @ + st_interval(copy.cfg)]
  /\ UNCHANGED <<handlerVars, processing, locking>>

\* the copy of one attempt and what follows it: the success row and the
\* return, or the wait before the next attempt, or the end of the loop
AttemptCopy(ok) ==
  /\ copy.pc = "copy"
  /\ copy' =
       LET cp == [copy EXCEPT !.copies = Append(@, [attempt |-> copy.attempt,
                                                    strategy |-> CopyStrategy(copy.cfg),
                                                    ok |-> ok])] IN
       IF ok
         THEN Returned([cp EXCEPT !.rows = Append(@, SuccessRow(cp.cfg, cp.attempt))],
                       "cache_file")
       ELSE IF cp.attempt < retry(cp.cfg)
         THEN BeginAttempt([cp EXCEPT !.waits = Append(@, [attempt |-> cp.attempt,
                                                           sec |-> RetryWait(cp.cfg, cp.attempt)])],
                           cp.attempt + 1)
       ELSE AfterLoop(cp)
  /\ UNCHANGED <<handlerVars, processing, locking>>

NextCopy ==
  \/ \E src \in SourceStates : CopyCall(src)
  \/ WaitCall
  \/ \E cur \in Readings : WaitRead(cur)
  \/ \E ok \in BOOLEAN : AttemptCopy(ok)

\* the call runs on: no step of it waits for another thread
SpecCopy == InitCopy /\ [][NextCopy]_vars /\ WF_vars(NextCopy)

(***************************************************************************)
(* utils/helpers.py timeout_handler, the watchdog thread started by main() *)
(* when ENABLE_TIMEOUT is set, and the two module-level variables          *)
(* settings.current_processing_file / settings.processing_start_time that  *)
(* dump_excel_cells_with_timeout sets on entry and clears in its finally.  *)
(* Two threads read workbooks: the notification thread and a polling       *)
(* timer's thread.  The clock is in seconds and moves by the watchdog's    *)
(* sleep.                                                                  *)
(***************************************************************************)
FILE_TIMEOUT_SECONDS == 120
\* time.sleep(10) of the watchdog loop
WATCHDOG_SLEEP_SEC == 10
\* the clock stops at MaxClock seconds
MaxClock == 140

Readers == {"notification", "timer"}
\* the workbook each thread reads
ReadFile(th) == IF th = "notification" THEN "a.xlsx" ELSE "b.xlsx"
NoFile == ""
NoTime == -1
IdleStep == [pc |-> "idle", start |-> NoTime]

InitWatchdog ==
  /\ InitWatcher
  /\ monitor_only = {}
  /\ excluded = {}
  /\ files = [f \in Files |-> [content |-> 1, mtime |-> 0, size_mb |-> 1]]
  /\ baseline = [f \in Files |-> NoBaseline]
  /\ settings = DefaultSettings
  /\ faults = FALSE
  /\ copy = NoCopy
  /\ locking = NoLocking
  /\ processing = [current_processing_file |-> NoFile, processing_start_time |-> NoTime,
                   clock |-> 0, steps |-> [th \in Readers |-> IdleStep], warned |-> {}]

\* dump_excel_cells_with_timeout(path) is entered on thread th
DumpBegin(th) ==
  /\ processing.steps[th].pc = "idle"
  /\ processing' = [processing EXCEPT
       !.current_processing_file = ReadFile(th),
       !.processing_start_time = processing.clock,
       !.steps[th] = [pc |-> "running", start |-> processing.clock]]
  /\ UNCHANGED <<handlerVars, copy, locking>>

\* the read on thread th ends: the finally clause
DumpEnd(th) ==
  /\ processing.steps[th].pc = "running"
  /\ processing' = [processing EXCEPT
       !.current_processing_file = NoFile,
       !.processing_start_time = NoTime,
       !.steps[th] = [pc |-> "done", start |-> NoTime]]
  /\ UNCHANGED <<handlerVars, copy, locking>>

ClockTick ==
  /\ processing.clock < MaxClock
  /\ processing' = [processing EXCEPT !.clock = @ + WATCHDOG_SLEEP_SEC]
  /\ UNCHANGED <<handlerVars, copy, locking>>

\* the watchdog looks at the one pair of variables
TimedOut ==
  /\ processing.current_processing_file # NoFile
  /\ processing.processing_start_time # NoTime
  /\ processing.clock - processing.processing_start_time > FILE_TIMEOUT_SECONDS

\* one turn of the watchdog loop after its sleep
timeout_handler ==
  /\ TimedOut
  /\ processing' = [processing EXCEPT
       !.warned = @ \cup {processing.current_processing_file},
       !.current_processing_file = NoFile,
       !.processing_start_time = NoTime]
  /\ UNCHANGED <<handlerVars, copy, locking>>

NextWatchdog ==
  \/ \E th \in Readers : DumpBegin(th)
  \/ \E th \in Readers : DumpEnd(th)
  \/ ClockTick
  \/ timeout_handler

\* the clock runs and the watchdog thread gets its turns; a read may hang
SpecWatchdog ==
  InitWatchdog /\ [][NextWatchdog]_vars /\ WF_vars(ClockTick) /\ WF_vars(timeout_handler)

(***************************************************************************)
(* core/watcher.py, ActivePollingHandler.lock: who holds it and when.  Two *)
(* watched files; the notification thread ("router"), one callback thread  *)
(* per file (named by the file) and the main thread ("main").  A thread    *)
(* inside compare_excel_changes is comparing or, inside copy_to_cache, in  *)
(* the sleep between two attempts.                                         *)
(***************************************************************************)
LockFiles == {"a.xlsx", "b.xlsx"}
LockThreads == {"router", "main"} \cup LockFiles
NoHolder == ""

InitLock ==
  /\ InitWatcher
  /\ monitor_only = {}
  /\ excluded = {}
  /\ files = [f \in Files |-> [content |-> 1, mtime |-> 0, size_mb |-> 1]]
  /\ baseline = [f \in Files |-> NoBaseline]
  /\ settings = DefaultSettings
  /\ faults = FALSE
  /\ copy = NoCopy
  /\ processing = IdleProcessing
  /\ locking = [lock |-> NoHolder, polling_tasks |-> {}, timer |-> {}, stop_event |-> FALSE,
                pc |-> [th \in LockThreads |-> "idle"], file |-> "",
                has_changes |-> [f \in LockFiles |-> FALSE],
                accesses |-> {}, during_wait |-> {}]

\* a use of self.polling_tasks by thread th, with or without the lock
Access(th, op) == [thread |-> th, op |-> op, locked |-> locking.lock = th]

\* what another thread did while the router's comparison sleeps between attempts
Noted(event) ==
  IF locking.pc["router"] = "retry_wait" THEN locking.during_wait \cup {event}
  ELSE locking.during_wait

\* the callback takes the lock when it starts
LockedAtFire(l, th) == th
\* _poll_for_stability up to compare_excel_changes: no `with self.lock`
AfterFire(l, th) == l

\* on_modified up to `if file_path in self.polling_handler.polling_tasks`
LockOnModified(f) ==
  /\ locking.pc["router"] = "idle"
  /\ locking.pc["main"] # "stopped"
  /\ locking' = [locking EXCEPT
       !.accesses = @ \cup {Access("router", "read")},
       !.pc["router"] = IF f \in locking.polling_tasks THEN "idle" ELSE "compare",
       !.file = IF f \in locking.polling_tasks THEN "" ELSE f]
  /\ UNCHANGED <<handlerVars, copy, processing>>

\* copy_to_cache inside the comparison: time.sleep(backoff * attempt) begins
RetryWaitBegin(th) ==
  /\ locking.pc[th] = "compare"
  /\ locking' = [locking EXCEPT !.pc[th] = "retry_wait",
                                !.during_wait = IF th = "router" THEN {} ELSE @]
  /\ UNCHANGED <<handlerVars, copy, processing>>

RetryWaitEnd(th) ==
  /\ locking.pc[th] = "retry_wait"
  /\ locking' = [locking EXCEPT !.pc[th] = "compare",
                                !.during_wait = IF th = "router" THEN {} ELSE @]
  /\ UNCHANGED <<handlerVars, copy, processing>>

\* compare_excel_changes returns; the thread goes on to its `with self.lock`
CompareEnd(th, has_changes) ==
  /\ locking.pc[th] = "compare"
  /\ locking' = [locking EXCEPT
       !.pc[th] = "want_lock",
       !.has_changes = IF th \in LockFiles THEN [@ EXCEPT ![th] = has_changes] ELSE @,
       !.during_wait = IF th \in LockFiles THEN Noted("compared") ELSE @]
  /\ UNCHANGED <<handlerVars, copy, processing>>

\* `with self.lock:` is entered
Acquire(th) ==
  /\ locking.pc[th] = "want_lock"
  /\ locking.lock = NoHolder
  /\ locking' = [locking EXCEPT !.lock = th, !.pc[th] = "in_lock"]
  /\ UNCHANGED <<handlerVars, copy, processing>>

\* _start_adaptive_polling inside the lock, and the end of on_modified
LockStartPolling ==
  /\ locking.pc["router"] = "in_lock"
  /\ locking' = [locking EXCEPT
       !.accesses = @ \cup {Access("router", "read"), Access("router", "write")},
       !.timer = @ \cup {locking.file},
       !.polling_tasks = @ \cup {locking.file},
       !.lock = NoHolder,
       !.pc["router"] = "idle",
       !.file = ""]
  /\ UNCHANGED <<handlerVars, copy, processing>>

\* the timer of file f fires: _poll_for_stability up to the comparison
LockTimerFire(f, changed) ==
  /\ f \in locking.timer
  /\ locking.pc[f] = "idle"
  /\ locking' = [locking EXCEPT
       !.timer = @ \ {f},
       !.pc[f] = IF locking.stop_event THEN "idle"
                 ELSE IF changed THEN "compare" ELSE "want_lock",
       !.has_changes[f] = FALSE,
       !.lock = IF locking.stop_event THEN @ ELSE AfterFire(@, f),
       !.during_wait = Noted("fired")]
  /\ UNCHANGED <<handlerVars, copy, processing>>

\* _poll_for_stability inside the lock
LockPollFinish(f) ==
  /\ locking.pc[f] = "in_lock"
  /\ locking' =
       IF f \notin locking.polling_tasks
         THEN [locking EXCEPT !.accesses = @ \cup {Access(f, "read")},
                              !.lock = NoHolder, !.pc[f] = "idle"]
       ELSE IF locking.has_changes[f]
         THEN [locking EXCEPT !.accesses = @ \cup {Access(f, "read"), Access(f, "write")},
                              !.timer = @ \cup {f},
                              !.during_wait = Noted("rescheduled"),
                              !.lock = NoHolder, !.pc[f] = "idle"]
       ELSE [locking EXCEPT !.accesses = @ \cup {Access(f, "read"), Access(f, "write")},
                            !.polling_tasks = @ \ {f},
                            !.during_wait = Noted("removed"),
                            !.lock = NoHolder, !.pc[f] = "idle"]
  /\ UNCHANGED <<handlerVars, copy, processing>>

\* stop(): self.stop_event.set()
LockStop ==
  /\ locking.pc["main"] = "idle"
  /\ locking' = [locking EXCEPT !.stop_event = TRUE, !.pc["main"] = "want_lock"]
  /\ UNCHANGED <<handlerVars, copy, processing>>

\* stop() inside the lock
LockStopClear ==
  /\ locking.pc["main"] = "in_lock"
  /\ locking' = [locking EXCEPT
       !.accesses = @ \cup {Access("main", "read"), Access("main", "write")},
       !.timer = {},
       !.polling_tasks = {},
       !.lock = NoHolder,
       !.pc["main"] = "stopped"]
  /\ UNCHANGED <<handlerVars, copy, processing>>

NextLock ==
  \/ \E f \in LockFiles : LockOnModified(f)
  \/ \E th \in {"router"} \cup LockFiles : RetryWaitBegin(th)
  \/ \E th \in {"router"} \cup LockFiles : RetryWaitEnd(th)
  \/ \E th \in {"router"} \cup LockFiles, has_changes \in BOOLEAN : CompareEnd(th, has_changes)
  \/ \E th \in LockThreads : Acquire(th)
  \/ LockStartPolling
  \/ \E f \in LockFiles, changed \in BOOLEAN : LockTimerFire(f, changed)
  \/ \E f \in LockFiles : LockPollFinish(f)
  \/ LockStop
  \/ LockStopClear

SpecLock == InitLock /\ [][NextLock]_vars

(***************************************************************************)
(* Properties.                                                             *)
(***************************************************************************)
\* the passes of compare_excel_changes in progress for file f
Passes(f) == { p \in Comparers : InProgress(p) /\ cmp[p].file = f }

\* the timer objects of file f that are pending or whose callback is running
LiveTimers(f) == { t \in TimerIds : timers[t].state # "free" /\ timers[t].file = f }

\* C1: under every interleaving of start_polling, the timer callbacks and
\* stop(), a file has at most one timer that has been started and has
\* neither fired nor been cancelled.
C1_OnePendingTimerPerFile ==
  \A f \in Files : Cardinality(PendingTimers(f)) <= 1

\* C2: at most one full (silent=False) pass of compare_excel_changes is in
\* progress for a file at any moment.
C2_OneFullPassPerFile ==
  \A f \in Files : Cardinality({ p \in Passes(f) : ~cmp[p].silent }) <= 1

\* C3: no two passes of compare_excel_changes of any kind (quiet preview,
\* immediate full pass, polling pass) are in progress for the same file.
C3_NoOverlappingPasses ==
  \A f \in Files : Cardinality(Passes(f)) <= 1

\* nothing is left to do: the writer has finished, every notification has been
\* handled, no pass is running and no timer object is alive
Quiescent ==
  /\ writesLeft = 0 \/ now = MaxTime
  /\ \A f \in Files : pending[f] = 0
  /\ router.pc = "idle"
  /\ \A t \in TimerIds : timers[t].state = "free"
  /\ \A p \in Comparers : cmp[p].phase = "idle"

\* C4: with automatic baseline update on, reads and saves succeeding and the
\* system not shut down, once the finitely many modifications have all been
\* handled and nothing is left to run, no file has a polling task and every
\* stored baseline holds the cells of the file's final content.
C4_SettledBaselineIsFinalContent ==
  (/\ Quiescent
   /\ mainpc = "watching"
   /\ ~faults
   /\ settings.AUTO_UPDATE_BASELINE_AFTER_COMPARE)
  => \A f \in Files : polling_tasks[f] = NoTask /\ baseline[f].cells = CurrentCells(f)

\* C4, why the state that refutes it is final: a quiescent state in which
\* some baseline is not the file's content stays as it is for as long as the
\* system is not shut down.
Stale ==
  /\ Quiescent
  /\ mainpc = "watching"
  /\ \E f \in Files : polling_tasks[f] # NoTask \/ baseline[f].cells # CurrentCells(f)

C4_StaleStateIsFinal ==
  [][Stale => (Stale' \/ mainpc' # "watching")]_vars

\* C8: in every state after stop() has returned, no file has a pending timer
\* and the task collection is empty, whatever operations follow.
C8_NothingScheduledAfterStop ==
  stop_event => \A f \in Files : polling_tasks[f] = NoTask /\ PendingTimers(f) = {}

\* what the locked section of the callback of timer t does to file f
SchedulesOneTimer(t, f) ==
  /\ Cardinality(PendingTimers(f)' \ PendingTimers(f)) = 1
  /\ timers'[t].state = "pending"
  /\ timers'[t].interval = timers[t].interval
  /\ timers'[t].remaining = timers[t].interval
  /\ polling_tasks'[f] # NoTask

SchedulesNothing(f) == PendingTimers(f)' \subseteq PendingTimers(f)

\* C5 as stated: when the callback of a fired timer ends and its comparison
\* reported a change, exactly one new timer with the same interval is
\* scheduled and the file keeps its task; when it reported no change, no
\* timer is scheduled and the task entry is removed.
C5_RescheduleOnChange ==
  [][\A t \in TimerIds : PollFinish(t) =>
        IF HasChanges(t)
        THEN SchedulesOneTimer(t, timers[t].file)
        ELSE SchedulesNothing(timers[t].file) /\ polling_tasks'[timers[t].file] = NoTask]_vars

\* C5 amended: the same, provided the file still has its task entry when the
\* callback takes the lock; if stop() removed the entry meanwhile, the
\* callback schedules nothing and leaves the collection as it is.
C5_RescheduleOnChangeIfTaskKept ==
  [][\A t \in TimerIds : PollFinish(t) =>
        IF polling_tasks[timers[t].file] = NoTask
        THEN SchedulesNothing(timers[t].file) /\ polling_tasks' = polling_tasks
        ELSE IF HasChanges(t)
        THEN SchedulesOneTimer(t, timers[t].file)
        ELSE SchedulesNothing(timers[t].file) /\ polling_tasks'[timers[t].file] = NoTask]_vars

\* C5, reached: a callback found a change and scheduled the next timer.
C5_Witness ==
  \E t \in TimerIds :
    /\ timers[t].state = "pending"
    /\ polling_tasks[timers[t].file] = t
    /\ Out("polling_extended", timers[t].file) \in console

\* comparer t is inside, or has just finished, a polling pass for file f
RunsPollingPass(c, f) ==
  c.phase # "idle" /\ c.is_polling /\ ~c.silent /\ c.file = f

C7_PollingEnds ==
  \A f \in Files :
    (polling_tasks[f] # NoTask) ~> (polling_tasks[f] = NoTask /\ LiveTimers(f) = {})

\* C7, reached: a callback found the file stable, removed the task and no
\* timer of the file is left, although the stored baseline does not match the
\* file (a comparison failed or missed the last save).
C7_Witness ==
  \E f \in Files :
    /\ Out("polling_stable", f) \in console
    /\ polling_tasks[f] = NoTask
    /\ LiveTimers(f) = {}
    /\ baseline[f].cells # CurrentCells(f)

\* a step of a pass of the Comparison Engine run with silent=True
SilentStep ==
  \/ \E f \in Files, is_polling \in BOOLEAN : Compare(f, TRUE, is_polling)
  \/ cmp[ROUTER].silent /\ (CmpRead(ROUTER) \/ CmpSave(ROUTER))

PollingStep ==
  \/ \E f \in Files, silent \in BOOLEAN : Compare(f, silent, TRUE)
  \/ cmp[ROUTER].is_polling /\ (CmpRead(ROUTER) \/ CmpSave(ROUTER))

\* C10: a pass with is_polling=True never appends a row to the change log and
\* never changes the recent-duplicate memory.
C10_PollingPassDoesNotLog ==
  [][PollingStep => log' = log /\ recent' = recent]_vars

\* C10, reached: a visible polling pass has returned after finding changes the
\* category settings keep, and the log is still empty.
C10_Witness ==
  /\ cmp[ROUTER].phase = "done"
  /\ cmp[ROUTER].is_polling
  /\ ~cmp[ROUTER].silent
  /\ cmp[ROUTER].result
  /\ ~settings.AUTO_UPDATE_BASELINE_AFTER_COMPARE
  /\ \E f \in Files : \E sh \in DOMAIN CurrentCells(f) :
       analyze_meaningful_changes(SnapGet(baseline[f].cells, sh),
                                  SnapGet(CurrentCells(f), sh), settings) # {}
  /\ log = << >>

\* C11 -- when the quick skip is enabled, the baseline carries both stat
\* fields, the file's size equals the stored one and its modification time is
\* within MTIME_TOLERANCE_SEC of the stored one, a pass, quiet or full, returns
\* false in the step of the call, never reads the workbook and leaves the
\* baseline and the change log as they were
QuickSkipCase(f) ==
  /\ settings.QUICK_SKIP_BY_STAT
  /\ baseline[f].exists /\ baseline[f].has_stat
  /\ getsize(f) = baseline[f].source_size
  /\ getmtime(f) - baseline[f].source_mtime <= MTIME_TOLERANCE_SEC
  /\ baseline[f].source_mtime - getmtime(f) <= MTIME_TOLERANCE_SEC

SavesBaseline(p, f) ==
  /\ CmpSave(p)
  /\ cmp[p].file = f
  /\ baseline'[f] # baseline[f]

C12_SavedStatIsOfStoredVersion ==
  [][\A p \in Comparers, f \in Files :
       SavesBaseline(p, f)
         => /\ baseline'[f].cells = cmp[p].current_data
            /\ baseline'[f].source_mtime = cmp[p].read_stat.mtime
            /\ baseline'[f].source_size = cmp[p].read_stat.size]_vars

\* C13 -- a pass that ran the comparison returns true exactly when at least
\* one change record survives the category settings; a pass whose only
\* differences belong to switched-off categories returns false
MeaningfulChangeFound(baseline_cells, current_data) ==
  \E s \in DOMAIN baseline_cells \cup DOMAIN current_data :
    analyze_meaningful_changes(SnapGet(baseline_cells, s), SnapGet(current_data, s),
                               settings) # {}

\* comparer p ends, in this step, a pass that compared the snapshot it read
ReturnsFromComparison(p) ==
  /\ cmp[p].phase \in {"read", "retry", "save"}
  /\ cmp'[p].phase = "done"
  /\ cmp'[p].cause \in {"no_change", "changed"}

C13_ReturnsTrueIffMeaningfulChange ==
  [][ReturnsFromComparison(ROUTER)
       => (cmp'[ROUTER].result
             <=> MeaningfulChangeFound(cmp[ROUTER].old_baseline.cells,
                                       CurrentCells(cmp[ROUTER].file)))]_vars

\* C14 -- no exception leaves compare_excel_changes: an error raised while the
\* baseline is loaded, the snapshot is read, the changes are classified,
\* displayed or logged, or the baseline is saved makes the pass return false,
\* and the thread that called it goes on: the notification thread leaves the
\* call and finishes on_modified, the timer callback reaches its locked section
PassPhases == {"idle", "read", "retry", "save", "done"}

ErrorReturned(p) == cmp[p].phase = "done" /\ cmp[p].cause = "error"

C14_NoExceptionEscapes ==
  /\ [](\A p \in Comparers :
          /\ cmp[p].phase \in PassPhases
          /\ cmp[p].cause = "error" => (cmp[p].phase = "done" /\ cmp[p].result = FALSE))
  /\ (router.pc = "preview" /\ ErrorReturned(ROUTER)) ~> (router.pc # "preview")
  /\ (router.pc = "full" /\ ErrorReturned(ROUTER)) ~> (router.pc = "idle")
  /\ \A t \in TimerIds :
       (timers[t].state = "comparing" /\ ErrorReturned(t)) ~> (timers[t].state # "comparing")

\* an error was raised in the save step of the pass of a timer callback
C14_Witness ==
  \E t \in TimerIds : /\ timers[t].state = "comparing" /\ ErrorReturned(t)
                      /\ Out("auto_update", timers[t].file) \in console

\* C15 -- a pass whose read fails reads exactly once more; when the second
\* read fails too, the value the pass returns differs from the value returned
\* by a pass that compared and found no change
ReadFails(p) ==
  /\ CmpRead(p)
  /\ cmp'[p].phase = "retry" \/ cmp'[p].cause = "unreadable"

C15_ReadFailureToldApart ==
  [][\A p \in Comparers :
       ReadFails(p)
         => /\ cmp[p].phase = "read" => cmp'[p].phase = "retry"
            /\ cmp[p].phase = "retry"
                 => /\ cmp'[p].phase = "done"
                    /\ cmp'[p].result # ReturnNoChange(cmp[p]).result]_vars

\* C16 -- when save_baseline fails at the end of a pass that found changes,
\* the pass returns true, the stored baseline is the one it was, and the next
\* pass on the unmodified file is not skipped and finds the file different
\* from the baseline again
FailedSave(p) ==
  /\ CmpSave(p)
  /\ Out("save_warning", cmp[p].file) \in console'

AfterFailedSave(p, f) ==
  /\ cmp[p].phase = "done" /\ cmp[p].file = f
  /\ Out("save_warning", f) \in console

C16_FailedSaveKeepsChangeDetectable ==
  [][/\ FailedSave(ROUTER) => (cmp'[ROUTER].phase = "done" /\ cmp'[ROUTER].result = TRUE
                                 /\ baseline' = baseline)
     /\ \A f \in Files, silent \in BOOLEAN, is_polling \in BOOLEAN :
          (AfterFailedSave(ROUTER, f) /\ Compare(f, silent, is_polling)
             /\ cmp'[ROUTER].cause # "error")
            => /\ cmp'[ROUTER].phase = "read"
               /\ any_sheet_has_changes(cmp'[ROUTER].old_baseline.cells, CurrentCells(f))]_vars

\* a save has failed: the pass returned true and the baseline still differs
\* from the file
C16_Witness ==
  \E f \in Files :
    /\ AfterFailedSave(ROUTER, f)
    /\ cmp[ROUTER].result = TRUE
    /\ baseline[f].exists /\ baseline[f].cells # CurrentCells(f)

\* C17 -- for every pair of cell records of one address, classify_change_type
\* returns the first category that matches, in this order: Added (absent from
\* the baseline, whatever its formula), Deleted (absent now), Formula change
\* (the formula differs, whatever the values), Direct value change (no formula
\* on either side, the value differs), External reference update or Indirect
\* change (same formula, the value differs)
Absent(cell) == cell = EmptyCell

HasFormula(cell) == ~Absent(cell) /\ cell.formula # NoFormula /\ cell.formula # << >>

ClassifyCall == call.fn = "classify_change_type"

FirstMatch(old_cell, new_cell, result) ==
  IF Absent(old_cell) THEN result = "CELL_ADDED"
  ELSE IF Absent(new_cell) THEN result = "CELL_DELETED"
  ELSE IF old_cell.formula # new_cell.formula THEN result = "FORMULA_CHANGE"
  ELSE IF ~HasFormula(old_cell) /\ ~HasFormula(new_cell) /\ old_cell.value # new_cell.value
       THEN result = "DIRECT_VALUE_CHANGE"
  ELSE IF old_cell.value # new_cell.value
       THEN result \in {"EXTERNAL_REF_UPDATE", "INDIRECT_CHANGE"}
  ELSE TRUE

C17_FirstMatchingCategory ==
  (ClassifyCall /\ ~(Absent(call.old_cell) /\ Absent(call.new_cell)))
    => FirstMatch(call.old_cell, call.new_cell, call.result)

\* formula and value both differ: the result is a Formula change
C17_Witness ==
  /\ ClassifyCall
  /\ HasFormula(call.old_cell) /\ HasFormula(call.new_cell)
  /\ call.old_cell.formula # call.new_cell.formula
  /\ call.old_cell.value # call.new_cell.value
  /\ call.result = "FORMULA_CHANGE"

\* C18 -- two cells with the same formula text, which refers to another
\* workbook in a form the reader stores (the raw [n]Sheet!A1 form, or the path
\* form produced by pretty_formula), and with different values are
\* classified as External reference update, never as Indirect change
C18_ExternalReferenceRecognised ==
  (/\ ClassifyCall
   /\ ~Absent(call.old_cell) /\ ~Absent(call.new_cell)
   /\ call.old_cell.formula = call.new_cell.formula
   /\ call.old_cell.formula \in ExternalFormulas
   /\ call.old_cell.value # call.new_cell.value)
    => call.result = "EXTERNAL_REF_UPDATE"

\* C19 -- when the file's snapshot is identical to the stored baseline's
\* cells, no sheet yields a change record, and no step of a pass, quiet, full
\* or polling, returns true, writes the log, or replaces the baseline
Identical(f) == baseline[f].exists /\ baseline[f].cells = CurrentCells(f)

NoChangeRecords(f) ==
  \A sh \in DOMAIN CurrentCells(f) :
    analyze_meaningful_changes(SnapGet(baseline[f].cells, sh), SnapGet(CurrentCells(f), sh),
                               settings) = {}

C19_IdenticalSnapshotNoChange ==
  [][\A f \in Files :
       Identical(f)
         => /\ NoChangeRecords(f)
            /\ cmp'[ROUTER].phase # "save"
            /\ cmp'[ROUTER].phase = "done" => cmp'[ROUTER].result = FALSE
            /\ baseline' = baseline /\ log' = log /\ recent' = recent]_vars

\* a full pass has read a file identical to its baseline and found no change
C19_Witness ==
  \E f \in Files :
    /\ Identical(f)
    /\ cmp[ROUTER].phase = "done" /\ cmp[ROUTER].file = f
    /\ cmp[ROUTER].cause = "no_change"
    /\ ~cmp[ROUTER].silent /\ ~cmp[ROUTER].is_polling

\* C20 -- analyze_meaningful_changes(A, B) and analyze_meaningful_changes(B, A)
\* report the same addresses, with the old and the new formula and value
\* exchanged and Added and Deleted exchanged; the other categories are the
\* same in both directions
SwapCategory(change_type) ==
  CASE change_type = "CELL_ADDED" -> "CELL_DELETED"
    [] change_type = "CELL_DELETED" -> "CELL_ADDED"
    [] OTHER -> change_type

SwapRecord(r) ==
  [address |-> r.address,
   old_value |-> r.new_value, new_value |-> r.old_value,
   old_formula |-> r.new_formula, new_formula |-> r.old_formula,
   change_type |-> SwapCategory(r.change_type)]

AnalyzeCall == call.fn = "analyze_meaningful_changes"

C20_AnalysisIsSymmetric ==
  AnalyzeCall
    => analyze_meaningful_changes(call.new_ws, call.old_ws, settings)
         = { SwapRecord(r) : r \in call.result }

\* a call that reports an added cell next to a cell whose formula is the same
\* and whose value differs
C20_Witness ==
  /\ AnalyzeCall
  /\ \E r \in call.result : r.change_type = "CELL_ADDED"
  /\ \E r \in call.result : r.change_type \in {"EXTERNAL_REF_UPDATE", "INDIRECT_CHANGE"}

\* C21 -- every change record of analyze_meaningful_changes carries one of the
\* six categories, and no record is produced for an address whose formula and
\* value are the same on the two sides, also when the cached-result lookup has
\* attached a cached result to the cells
SixCategories ==
  {"CELL_ADDED", "CELL_DELETED", "FORMULA_CHANGE", "DIRECT_VALUE_CHANGE",
   "EXTERNAL_REF_UPDATE", "INDIRECT_CHANGE"}

SameFormulaAndValue(old_ws, new_ws, addr) ==
  /\ addr \in DOMAIN old_ws /\ addr \in DOMAIN new_ws
  /\ old_ws[addr].formula = new_ws[addr].formula
  /\ old_ws[addr].value = new_ws[addr].value

C21_RecordsCarryOneOfSixCategories ==
  AnalyzeCall
    => \A r \in call.result :
         /\ r.change_type \in SixCategories
         /\ ~SameFormulaAndValue(call.old_ws, call.new_ws, r.address)

\* C22 -- the addresses shown in the on-screen difference table of a sheet are
\* exactly the addresses whose formula or value differs between the baseline
\* and the current snapshot: each of them is shown, whatever the category
\* settings, and no address whose formula and value both match is shown
DisplayCall == call.fn = "print_aligned_console_diff"

C22_TableShowsExactlyTheDifferences ==
  DisplayCall
    => call.result = { a \in DOMAIN call.old_ws \cup DOMAIN call.new_ws :
                         ~SameFormulaAndValue(call.old_ws, call.new_ws, a) }

\* C23 -- each of the six categories has a switch of its own: with the switch
\* off no change of that category is recorded for the log, and whether a
\* change of the category is recorded depends on no other switch
CategorySwitches ==
  {"TRACK_EXTERNAL_REFERENCES", "TRACK_DIRECT_VALUE_CHANGES", "TRACK_FORMULA_CHANGES",
   "IGNORE_INDIRECT_CHANGES"}

SwitchedOff(cfg, switch) ==
  IF switch = "IGNORE_INDIRECT_CHANGES" THEN cfg[switch] ELSE ~cfg[switch]

RecordsOfCategory(category, old_ws, new_ws, cfg) ==
  { r \in analyze_meaningful_changes(old_ws, new_ws, cfg) : r.change_type = category }

C23_EveryCategoryHasItsOwnSwitch ==
  AnalyzeCall
    => \A category \in SixCategories :
         \E switch \in CategorySwitches :
           /\ \A cfg \in CategorySettings :
                SwitchedOff(cfg, switch)
                  => RecordsOfCategory(category, call.old_ws, call.new_ws, cfg) = {}
           /\ \A cfg1 \in CategorySettings, cfg2 \in CategorySettings :
                cfg1[switch] = cfg2[switch]
                  => RecordsOfCategory(category, call.old_ws, call.new_ws, cfg1)
                       = RecordsOfCategory(category, call.old_ws, call.new_ws, cfg2)

\* the moments at which the log was written for these changes of this sheet
WrittenAt(file_path, worksheet_name, changes) ==
  { log[i].timestamp : i \in { j \in DOMAIN log : /\ log[j].file = file_path
                                                   /\ log[j].sheet = worksheet_name
                                                   /\ log[j].changes = changes } }

Latest(S) == CHOOSE x \in S : \A y \in S : y <= x

\* a call of log_meaningful_changes_to_csv with change records and an author
\* that was read
LoggingCall ==
  /\ call'.fn = "log_meaningful_changes_to_csv"
  /\ call'.t = now
  /\ call'.changes # << >>
  /\ call'.current_author \notin {NoAuthor, "N/A"}

\* C24: of the calls of log_meaningful_changes_to_csv for the same file,
\* sheet and set of change records, the records in any order (calls with an
\* author that was read; the others are the matter of C25): a call made
\* within LOG_DEDUP_WINDOW_SEC of the call that last wrote the set writes
\* nothing, and a call made after the window has passed writes the set again,
\* once.
C24_DuplicateWithinWindowNotLogged ==
  [][LoggingCall =>
       LET written == WrittenAt(call'.file_path, call'.worksheet_name,
                                normalized_changes(call'.changes))
       IN  written # {} =>
             IF now - Latest(written) <= LOG_DEDUP_WINDOW_SEC
             THEN log' = log
             ELSE log' = Append(log, [timestamp |-> now, file |-> call'.file_path,
                                      sheet |-> call'.worksheet_name,
                                      changes |-> normalized_changes(call'.changes),
                                      author |-> call'.current_author])]_vars

\* the set is logged, a call in another order at the very end of the window
\* is dropped, and the call one second later has written the set again
C24_Witness ==
  /\ Len(log) = 2
  /\ log[1].changes = log[2].changes /\ log[1].sheet = log[2].sheet
  /\ Cardinality(log[1].changes) = 2
  /\ log[2].timestamp = log[1].timestamp + LOG_DEDUP_WINDOW_SEC + 1
  /\ call # NoCall /\ call.fn = "log_meaningful_changes_to_csv" /\ call.t = log[2].timestamp

\* comparer p compares, in this step, the snapshot it read with the baseline
\* in a full pass that is not a polling pass, and finds them different
FullPassCompares(p) ==
  /\ cmp[p].phase \in {"read", "retry"}
  /\ ~cmp[p].silent /\ ~cmp[p].is_polling
  /\ \/ cmp'[p].phase = "save"
     \/ cmp'[p].phase = "done" /\ cmp'[p].cause = "changed"

\* the recent-duplicate window holds these changes of this sheet
Suppressed(file_path, worksheet_name, changes) ==
  \E e \in recent : /\ e.sig = [file |-> file_path, sheet |-> worksheet_name, changes |-> changes]
                    /\ ~(now - e.stamp > LOG_DEDUP_WINDOW_SEC)

\* the sheets of the pass whose surviving change records are to be logged
SheetsToLog(f, baseline_cells, current_data) ==
  { s \in DOMAIN baseline_cells \cup DOMAIN current_data :
      LET changes == analyze_meaningful_changes(SnapGet(baseline_cells, s),
                                                SnapGet(current_data, s), settings)
      IN  changes # {} /\ ~Suppressed(f, s, changes) }

\* the log entries added by the step
NewRows == { log'[i] : i \in (Len(log) + 1)..Len(log') }

\* C25: a full, non-polling pass whose change records survive the category
\* settings and are not held by the recent-duplicate window appends the rows
\* of exactly these records to the change log, one row per record, whoever
\* the last author is, an author that could not be read included.
C25_OneRowPerSurvivingRecord ==
  [][\A p \in Comparers :
       FullPassCompares(p) =>
         LET f == cmp[p].file
             baseline_cells == cmp[p].old_baseline.cells
             current_data == CurrentCells(f)
             sheets == SheetsToLog(f, baseline_cells, current_data)
         IN  /\ Len(log') = Len(log) + Cardinality(sheets)
             /\ \A s \in sheets : \E r \in NewRows :
                   /\ r.file = f /\ r.sheet = s
                   /\ r.changes = analyze_meaningful_changes(SnapGet(baseline_cells, s),
                                                             SnapGet(current_data, s), settings)]_vars

\* a modified notification for f is handed to on_modified in this step
Notified(f) == pending'[f] = pending[f] - 1

\* on_modified acts on the notification it was handed
ActedOn(f) == Notified(f) /\ event_counter' # event_counter

\* the last notification for f that was acted on is less than
\* DEBOUNCE_INTERVAL_SEC old
ActedOnRecently(f) ==
  last_event_times[f] # NoEvent /\ last_event_times[f] < DEBOUNCE_INTERVAL_SEC

\* C26 -- debounce: two modified notifications for the same file on which
\* on_modified acts are at least DEBOUNCE_INTERVAL_SEC apart, and a
\* notification that comes sooner is dropped and changes nothing: not the
\* remembered time, the event counter, the baseline, the log, the polling
\* tasks or their timers, and no comparison is begun.
C26_DebounceDropsAndChangesNothing ==
  [][\A f \in Files :
       /\ ActedOn(f) => ~ActedOnRecently(f) /\ last_event_times'[f] = 0
       /\ Notified(f) /\ ActedOnRecently(f) =>
            /\ last_event_times' = last_event_times /\ event_counter' = event_counter
            /\ baseline' = baseline /\ log' = log /\ recent' = recent
            /\ polling_tasks' = polling_tasks /\ timers' = timers
            /\ router' = router /\ cmp' = cmp]_vars

\* two saves raised two notifications, both were handed to on_modified, and
\* on_modified acted on one of them only
C26_Witness ==
  /\ writesLeft = MaxWrites - 2
  /\ \A f \in Files : pending[f] = 0
  /\ event_counter = 1

\* C27: on_modified does nothing at all for a file that lies inside a folder
\* of WATCH_EXCLUDE_FOLDERS: the remembered time and the event counter stay,
\* no comparison is begun, no baseline is written, no polling is started.
C27_ExcludedFilesIgnored ==
  [][\A f \in excluded :
       Notified(f) =>
         /\ last_event_times' = last_event_times /\ event_counter' = event_counter
         /\ router' = router /\ cmp' = cmp
         /\ baseline' = baseline /\ polling_tasks' = polling_tasks /\ timers' = timers]_vars

\* the notification thread is at the polling_tasks check of on_modified for a
\* file without polling task, past the monitor-only branch
ChecksWithoutTask ==
  /\ router.pc = "preview" /\ router'.pc # "preview"
  /\ polling_tasks[router.file] = NoTask
  /\ ~(router.file \in monitor_only /\ ~baseline[router.file].exists)

\* the full pass of on_modified has returned and on_modified goes on
LeavesFullPass == router.pc = "full" /\ router'.pc # "full"

FullPassCauses == {"quick_skip", "no_change", "changed", "unreadable", "error"}

\* C28: an acted-on modified notification for a file without polling task
\* (not the first sighting of a monitor-only file) runs one full comparison,
\* and when that comparison has returned -- a change, no change, a read
\* failure or an error -- on_modified starts a polling task for the file.
C28_FullPassThenPollingWhateverTheResult ==
  /\ [][ChecksWithoutTask =>
          /\ router' = [pc |-> "full", file |-> router.file]
          /\ cmp'[ROUTER].file = router.file
          /\ ~cmp'[ROUTER].silent /\ ~cmp'[ROUTER].is_polling
          /\ cmp'[ROUTER].phase \in {"read", "done"}]_vars
  /\ [][LeavesFullPass =>
          /\ cmp[ROUTER].phase = "done" /\ cmp[ROUTER].cause \in FullPassCauses
          /\ polling_tasks'[router.file] \in TimerIds
          /\ polling_tasks'[router.file] # polling_tasks[router.file]
          /\ timers'[polling_tasks'[router.file]].state = "pending"
          /\ timers'[polling_tasks'[router.file]].file = router.file
          /\ router' = RouterIdle]_vars
  /\ (router.pc = "full" ~> router.pc = "idle")

\* polling has just been started after the full pass of the first
\* notification, which left the baseline and the log as they were
C28_Witness ==
  /\ event_counter = 1
  /\ router = RouterIdle
  /\ \E f \in Files :
       /\ console = {Out("polling_started", f)}
       /\ polling_tasks[f] \in TimerIds
       /\ timers[polling_tasks[f]].state = "pending"
       /\ baseline[f] = BaselineFrom(1, "user") /\ baseline[f].cells # CurrentCells(f)
  /\ log = << >>

\* on_modified, past the quiet preview pass, goes on for a file that is in
\* polling_tasks
GoesOnWithTask ==
  /\ router.pc = "preview" /\ router'.pc # "preview"
  /\ polling_tasks[router.file] # NoTask

\* the first sighting of a monitor-only file: it has no baseline yet
FirstSighting(f) == f \in monitor_only /\ ~baseline[f].exists

\* no full pass is begun and the polling tasks, their timers, the baseline
\* and the change log stay as they are
NothingButTheNotice ==
  /\ router' = RouterIdle /\ cmp'[ROUTER] = IdleCmp
  /\ polling_tasks' = polling_tasks /\ timers' = timers
  /\ baseline' = baseline /\ log' = log /\ recent' = recent

\* a step of the quiet preview pass that on_modified runs first
QuietPreviewStep == router.pc = "preview" /\ cmp'[ROUTER] # cmp[ROUTER] /\ router' = router

PreviewWritesNothing ==
  /\ polling_tasks' = polling_tasks /\ timers' = timers
  /\ baseline' = baseline /\ log' = log /\ recent' = recent

\* C29 as stated: an acted-on modified notification for a file that already
\* has a polling task runs no full comparison and leaves the task's timer and
\* interval, the baseline and the change log unchanged.
C29_Original_PolledFileLeftAlone ==
  [][/\ QuietPreviewStep => PreviewWritesNothing
     /\ GoesOnWithTask => NothingButTheNotice]_vars

\* C29, amended: the same, unless the notification is the first sighting of
\* a monitor-only file, which is handled before the polling_tasks check and
\* may save the first baseline.
C29_PolledFileLeftAlone ==
  [][/\ QuietPreviewStep => PreviewWritesNothing
     /\ GoesOnWithTask /\ ~FirstSighting(router.file) => NothingButTheNotice]_vars

\* on_modified has just returned at the polling_tasks check: the file's
\* polling task and its pending timer are there
C29_Witness ==
  /\ router = RouterIdle
  /\ \E f \in Files :
       /\ Out("polling_active", f) \in console
       /\ polling_tasks[f] \in TimerIds
       /\ timers[polling_tasks[f]].state = "pending"
       /\ event_counter = 2

\* on_modified, past the quiet preview pass, goes on
GoesOn == router.pc = "preview" /\ router'.pc # "preview"

\* the workbook was read and save_baseline returned
ReadForFirstBaseline(f) == Out("first_baseline", f) \in console'

\* on_modified returns: no full pass, no row in the change log, no polling
\* task started or cancelled
ReturnsAtOnce ==
  /\ router' = RouterIdle /\ cmp'[ROUTER] = IdleCmp
  /\ log' = log /\ recent' = recent
  /\ polling_tasks' = polling_tasks /\ timers' = timers

\* C30: for a modified file under a monitor-only folder (and not under a
\* watch folder) that has no baseline yet and can be read, on_modified saves a
\* first baseline and returns: no full comparison, no row in the change log,
\* no polling task started (where reads and saves may fail: whenever the
\* workbook was read, and the baseline is the first baseline if the Baseline
\* Store took it).  At a later
\* notification the file has a baseline and is handled like any other file:
\* unless it is being polled, the full comparison runs against that baseline.
C30_MonitorOnlyFirstSighting ==
  [][\A f \in monitor_only :
       GoesOn /\ router.file = f =>
         /\ ~baseline[f].exists /\ ~faults =>
              /\ baseline' = [baseline EXCEPT ![f] = FirstBaseline(f, "user")]
              /\ ReturnsAtOnce
         /\ ~baseline[f].exists /\ ReadForFirstBaseline(f) =>
              /\ \/ baseline' = baseline
                 \/ \E a \in {"user", NoAuthor} :
                      baseline' = [baseline EXCEPT ![f] = FirstBaseline(f, a)]
              /\ ReturnsAtOnce
         /\ baseline[f].exists /\ polling_tasks[f] = NoTask =>
              /\ router' = [pc |-> "full", file |-> f]
              /\ ~cmp'[ROUTER].silent /\ ~cmp'[ROUTER].is_polling
              /\ cmp'[ROUTER].phase = "read" => cmp'[ROUTER].old_baseline = baseline[f]]_vars

\* the first baseline of a monitor-only file has just been saved: nothing is
\* compared, logged or polled
C30_Witness ==
  /\ router = RouterIdle
  /\ \E f \in monitor_only :
       /\ Out("first_baseline", f) \in console
       /\ baseline[f] = FirstBaseline(f, "user")
       /\ polling_tasks[f] = NoTask
  /\ log = << >>
  /\ event_counter = 1

(***************************************************************************)
(* C31: with STRICT_NO_ORIGINAL_READ on, copy_to_cache never returns the   *)
(* source path for a source outside the cache folder, and every call that  *)
(* ends without a local copy (cache switched off, source missing or        *)
(* unreadable, I/O error, source never settled, attempts used up) returns  *)
(* nothing; with the mode off the same calls return the source path.       *)
(***************************************************************************)
CopyReturned == copy.fn = "copy_to_cache" /\ copy.pc = "done"

HasLocalCopy ==
  /\ copy.cfg.USE_LOCAL_CACHE
  /\ \/ copy.src = "cache_fresh"
     \/ copy.copies # << >> /\ copy.copies[Len(copy.copies)].ok

C31_StrictNeverReturnsSource ==
  CopyReturned /\ copy.src # "in_cache" =>
    /\ copy.cfg.STRICT_NO_ORIGINAL_READ => copy.result # "network_path"
    /\ ~HasLocalCopy =>
         copy.result = IF copy.cfg.STRICT_NO_ORIGINAL_READ THEN "None" ELSE "network_path"
    /\ HasLocalCopy => copy.result = "cache_file"

\* strict mode, one attempt gave up on an unsettled source, the copy of the
\* last attempt failed: nothing is returned
C31_Witness ==
  /\ CopyReturned
  /\ copy.cfg.STRICT_NO_ORIGINAL_READ
  /\ copy.src = "to_copy"
  /\ copy.unstable # {}
  /\ copy.copies # << >>
  /\ ~HasLocalCopy
  /\ copy.result = "None"

(***************************************************************************)
(* C32: copy_to_cache makes at most max(1, COPY_RETRY_COUNT) attempts; the *)
(* wait after failed attempt k is COPY_RETRY_BACKOFF_SEC times k, one wait *)
(* between an attempt and the next; and the call, once made, returns.      *)
(***************************************************************************)
AttemptsBounded ==
  /\ copy.attempt <= Max(1, copy.cfg.COPY_RETRY_COUNT)
  /\ Len(copy.copies) <= Max(1, copy.cfg.COPY_RETRY_COUNT)
  /\ \A i \in DOMAIN copy.copies : copy.copies[i].attempt <= Max(1, copy.cfg.COPY_RETRY_COUNT)

WaitsGrow ==
  /\ \A i \in DOMAIN copy.waits :
       copy.waits[i].sec = copy.cfg.COPY_RETRY_BACKOFF_SEC * copy.waits[i].attempt
  /\ \A i, j \in DOMAIN copy.waits : i < j => copy.waits[i].attempt < copy.waits[j].attempt
  /\ copy.pc \in {"wait", "copy"} =>
       /\ Len(copy.waits) = copy.attempt - 1
       /\ \A i \in DOMAIN copy.waits : copy.waits[i].attempt = i

C32_BoundedAttemptsGrowingWaitsTermination ==
  /\ [](copy.fn = "copy_to_cache" => AttemptsBounded /\ WaitsGrow)
  /\ (copy.fn = "copy_to_cache" ~> CopyReturned)

\* two attempts allowed: the first copy failed, one second was waited, the
\* source did not settle in the second attempt, two seconds were waited
C32_Witness ==
  /\ CopyReturned
  /\ copy.cfg.COPY_RETRY_COUNT = 2
  /\ copy.cfg.COPY_RETRY_BACKOFF_SEC = 1
  /\ Len(copy.copies) = 1 /\ ~copy.copies[1].ok
  /\ copy.unstable = {2}
  /\ copy.waits = <<[attempt |-> 1, sec |-> 1], [attempt |-> 2, sec |-> 2]>>

(***************************************************************************)
(* C33: an attempt whose stability wait ran out of time without the        *)
(* source settling still performs its copy, so a call in which the source  *)
(* never settles (and no reading fails) has tried to copy when it ends.    *)
(***************************************************************************)
CopiedIn(k) == \E i \in DOMAIN copy.copies : copy.copies[i].attempt = k

C33_UnsettledAttemptStillCopies ==
  copy.fn = "copy_to_cache" =>
    /\ \A k \in copy.timed_out : copy.pc = "done" \/ copy.attempt > k => CopiedIn(k)
    /\ CopyReturned /\ copy.timed_out # {} /\ copy.unstable = copy.timed_out =>
         copy.copies # << >>

(***************************************************************************)
(* C34: every copy attempt of copy_to_cache, failed or successful, has its *)
(* own diagnostic row, and the row carries the attempt's number and the    *)
(* strategy the attempt used (single copy, chunked copy, external tool).   *)
(***************************************************************************)
\* the strategy a row tells: the Engine and ChunkMB columns of copy_success;
\* copy_failures has no engine column
RowStrategy(row) ==
  IF row.log # "copy_success" THEN "not recorded"
  ELSE IF row.Engine # "python" THEN "external"
  ELSE IF row.ChunkMB > 0 THEN "chunked" ELSE "single"

C34_OneRowPerAttemptWithStrategy ==
  copy.fn = "copy_to_cache" =>
    /\ Len(copy.rows) = Len(copy.copies)
    /\ \A i \in DOMAIN copy.copies :
         i \in DOMAIN copy.rows =>
           /\ copy.rows[i].Attempts = copy.copies[i].attempt
           /\ RowStrategy(copy.rows[i]) = copy.copies[i].strategy

(***************************************************************************)
(* C39: _wait_for_stable_mtime returns true only when its last `checks`    *)
(* readings of the modification time were equal (at once, without a        *)
(* reading, when checks <= 1); it returns false when a reading fails or    *)
(* when max_wait has elapsed without that; and it returns, however the     *)
(* file keeps changing.                                                    *)
(***************************************************************************)
WaitReturned == copy.fn = "_wait_for_stable_mtime" /\ copy.pc = "done"

LastReadingsEqual(n) ==
  LET r == copy.readings IN
  /\ Len(r) >= n
  /\ r[Len(r)] # ReadFailed
  /\ \A i \in (Len(r) - n + 1)..Len(r) : r[i] = r[Len(r)]

LastReadingFailed == copy.readings # << >> /\ copy.readings[Len(copy.readings)] = ReadFailed

C39_StableOnlyAfterEqualReadings ==
  /\ [](/\ WaitReturned /\ copy.result = "True" =>
             IF copy.checks <= 1 THEN copy.readings = << >>
             ELSE LastReadingsEqual(copy.checks)
        /\ WaitReturned /\ copy.result = "False" =>
             \/ LastReadingFailed
             \/ /\ copy.elapsed >= copy.cfg.COPY_STABILITY_MAX_WAIT_SEC
                /\ ~LastReadingsEqual(copy.checks)
        /\ copy.pc = "wait" =>
             /\ ~LastReadingsEqual(copy.checks)
             /\ \A i \in DOMAIN copy.readings : copy.readings[i] # ReadFailed
        \* the wait inside copy_to_cache: the copy begins after equal readings only
        /\ copy.pc = "copy" /\ st_checks(copy.cfg) > 1 => LastReadingsEqual(st_checks(copy.cfg)))
  /\ (copy.pc = "wait" ~> copy.pc # "wait")

\* two checks asked: the file changed between the first two readings, the
\* third reading equals the second
C39_Witness ==
  /\ WaitReturned
  /\ copy.checks = 2
  /\ copy.readings = <<1, 2, 2>>
  /\ copy.result = "True"

(***************************************************************************)
(* C35: a read that has been running longer than FILE_TIMEOUT_SECONDS and  *)
(* goes on running is eventually warned about by the watchdog, also when   *)
(* two threads read at the same time; the watchdog never ends a read.      *)
(***************************************************************************)
Overdue(th) ==
  /\ processing.steps[th].pc = "running"
  /\ processing.clock - processing.steps[th].start > FILE_TIMEOUT_SECONDS

Warned(th) == ReadFile(th) \in processing.warned

C35_OverdueReadIsWarned ==
  /\ \A th \in Readers : Overdue(th) ~> (Warned(th) \/ processing.steps[th].pc # "running")
  /\ [][timeout_handler => processing'.steps = processing.steps]_vars

(***************************************************************************)
(* C36: a polling callback whose task was cancelled while its comparison   *)
(* ran (by stop(), or by a start_polling that replaced the task) schedules *)
(* no timer when it finishes and leaves every task entry as it is, the     *)
(* entry that replaced its own included.                                   *)
(***************************************************************************)
\* the callback has compared, and the entry of its file is no longer its own
TaskCancelled(t) ==
  /\ timers[t].state = "comparing"
  /\ polling_tasks[timers[t].file] # t

C36_CancelledCallbackTouchesNothing ==
  [][\A t \in TimerIds :
       PollFinish(t) /\ TaskCancelled(t) =>
         /\ polling_tasks' = polling_tasks
         /\ timers'[t] = FreeTimer
         /\ \A u \in TimerIds \ {t} : timers'[u] = timers[u]]_vars

(***************************************************************************)
(* C37: every read and write of polling_tasks is made by a thread holding  *)
(* the handler's lock, the router's existence check included, and between  *)
(* the router's check and its start_polling no other thread changes the    *)
(* collection.                                                             *)
(***************************************************************************)
\* the router is between its check and the lock of start_polling
RouterSequence == locking.pc["router"] \in {"compare", "retry_wait", "want_lock"}

C37_CollectionOnlyUnderLock ==
  /\ [](\A a \in locking.accesses : a.locked)
  /\ [][RouterSequence /\ locking'.pc["router"] = locking.pc["router"] =>
          locking'.polling_tasks = locking.polling_tasks]_vars

(***************************************************************************)
(* C38: the lock is held only inside the short locked sections, never by a *)
(* thread that is comparing, copying or sleeping between attempts; a       *)
(* file's timer fires, compares and reschedules while the comparison of    *)
(* another file sleeps between two attempts.                               *)
(***************************************************************************)
C38_LockNotHeldWhileComparing ==
  /\ \A th \in LockThreads : locking.lock = th => locking.pc[th] = "in_lock"
  /\ \A th \in LockThreads : locking.pc[th] \in {"compare", "retry_wait"} => locking.lock # th
  /\ locking.lock \in LockThreads \cup {NoHolder}

\* the router's comparison of a.xlsx is in one retry wait, and during that
\* wait the timer of b.xlsx fired, its callback compared and rescheduled
C38_Witness ==
  /\ locking.pc["router"] = "retry_wait"
  /\ locking.file = "a.xlsx"
  /\ {"fired", "compared", "rescheduled"} \subseteq locking.during_wait
  /\ "b.xlsx" \in locking.timer

(***************************************************************************)
(* C40: when a pass replaces the baseline of a file, the change records of *)
(* every sheet that differ between the replaced and the new baseline and   *)
(* survive the category settings are in the change log, written by that    *)
(* pass or earlier within the recent-duplicate window.                     *)
(***************************************************************************)
\* the log holds these changes of the sheet, written within the window
LoggedWithinWindow(lg, f, s, changes) ==
  \E i \in DOMAIN lg :
    /\ lg[i].file = f /\ lg[i].sheet = s /\ lg[i].changes = changes
    /\ ~(now - lg[i].timestamp > LOG_DEDUP_WINDOW_SEC)

C40_AdoptedChangesAreLogged ==
  [][\A f \in Files :
       baseline[f].exists /\ baseline'[f].exists /\ baseline'[f].cells # baseline[f].cells =>
         \A s \in DOMAIN baseline[f].cells \cup DOMAIN baseline'[f].cells :
           LET changes == analyze_meaningful_changes(SnapGet(baseline[f].cells, s),
                                                     SnapGet(baseline'[f].cells, s), settings)
           IN  changes # {} => LoggedWithinWindow(log', f, s, changes)]_vars

====
